---------------------------- MODULE Spec2Model ----------------------------
(***************************************************************************)
(* GTaskManager: the daily rollover run (dailyRunner, rolloverProcess,     *)
(* migrateIncompleteTasks, processInboxTasks), the Tasks API wrappers      *)
(* (ListService, TaskService, CompletedTaskService), the log sheet         *)
(* (LoggingSheetUtil) and the weekly digest (DigestMailer), as a state     *)
(* machine over the task lists, the log sheet, the outbound mail and the   *)
(* script lock.                                                            *)
(*                                                                         *)
(* Strings are sequences of tokens: "Rollover Count: " is one token, every *)
(* decimal digit is one token, so the regular expression                   *)
(* /Rollover Count: (\d+)/ is a search for the token RC followed by a      *)
(* maximal run of digit tokens.                                            *)
(***************************************************************************)
EXTENDS Integers, Sequences, FiniteSets, TLC

(* ------------------------------ bounds -------------------------------- *)

\* Concurrent or successive invocations of dailyRunner.
NumRuns == 2
\* Collaborator calls (Tasks API, spreadsheet, mail) that throw, in total.
MaxFaults == 2
\* Tasks on one page of Tasks.Tasks.list called without maxResults (the API
\* default is 20), scaled down.
DefaultMaxResults == 2
\* Tasks on one page of Tasks.Tasks.list called with maxResults: 100, scaled
\* down, kept above DefaultMaxResults.
MaxResults == 3
\* Length of the notes the rollover counter is applied to, and the number of
\* successive migrations of one task.
MaxNotesLen == 3
MaxMigrations == 3

(* ------------------------------ strings ------------------------------- *)

Null == "null"
RC == "Rollover Count: "
Sep == "\n\n"
EmailSep == "\n\n---\nOriginal Email: "
FromEmail == " [from email]"
DigitToks == <<"0", "1", "2", "3", "4", "5", "6", "7", "8", "9">>

IsDigit(tok) == \E i \in 1..10 : DigitToks[i] = tok

DigitVal(tok) == (CHOOSE i \in 1..10 : DigitToks[i] = tok) - 1

\* parseInt(s, 10) of a run of digits.
RECURSIVE ParseInt(_)
ParseInt(ds) ==
  IF ds = <<>> THEN 0
  ELSE 10 * ParseInt(SubSeq(ds, 1, Len(ds) - 1)) + DigitVal(ds[Len(ds)])

\* `${count}` of a non-negative integer.
RECURSIVE ToDigits(_)
ToDigits(n) ==
  IF n < 10 THEN <<DigitToks[n + 1]>>
  ELSE ToDigits(n \div 10) \o <<DigitToks[(n % 10) + 1]>>

\* Positions where /Rollover Count: \d+/ matches.
MatchPositions(notes) ==
  {i \in 1..Len(notes) - 1 : notes[i] = RC /\ IsDigit(notes[i + 1])}

\* The end of the maximal run of digits that starts at position i.
RECURSIVE DigitRunEnd(_, _)
DigitRunEnd(notes, i) ==
  IF i < Len(notes) /\ IsDigit(notes[i + 1]) THEN DigitRunEnd(notes, i + 1)
  ELSE i

Min(S) == CHOOSE x \in S : \A y \in S : x <= y

\* A mutant of RolloverNotes: the counter is appended even when one is there.
RolloverNotesAppendOnly(notes) ==
  notes \o (IF notes # <<>> THEN <<Sep>> ELSE <<>>) \o <<RC, "1">>

\* migrateIncompleteTasks, the notes with the rollover counter updated:
\* the first match is replaced by the count plus one, or
\* "Rollover Count: 1" is appended after a blank line.
RolloverNotes(notes) ==
  IF MatchPositions(notes) # {}
  THEN LET i == Min(MatchPositions(notes))
           e == DigitRunEnd(notes, i + 1)
           count == ParseInt(SubSeq(notes, i + 1, e)) + 1
       IN  SubSeq(notes, 1, i - 1) \o <<RC>> \o ToDigits(count)
             \o SubSeq(notes, e + 1, Len(notes))
  ELSE notes \o (IF notes # <<>> THEN <<Sep>> ELSE <<>>) \o <<RC, "1">>

\* TaskService.move: the link of the first email-type link, or Null.
EmailLink(links) ==
  LET idx == {i \in 1..Len(links) : links[i].type = "email"}
  IN  IF idx = {} THEN Null ELSE links[Min(idx)].link

Includes(s, tok) == \E i \in 1..Len(s) : s[i] = tok

\* The email block is added whenever the task has an email link.
AddsEmailBlockAlways(task) ==
  /\ EmailLink(task.links) # Null
  /\ EmailLink(task.links) # ""

\* TaskService.move: whether the email block is added to the new task.
AddsEmailBlock(task) ==
  /\ EmailLink(task.links) # Null
  /\ EmailLink(task.links) # ""
  /\ ~Includes(task.notes, EmailLink(task.links))

MoveTitle(task) ==
  IF AddsEmailBlock(task) THEN task.title \o <<FromEmail>> ELSE task.title

MoveNotes(task) ==
  IF AddsEmailBlock(task)
  THEN task.notes \o <<EmailSep, EmailLink(task.links)>>
  ELSE task.notes

(* ------------------------------- dates -------------------------------- *)

\* Days of July 2025. July 1, 2025 is a Tuesday: Date.getDay(), 0 = Sunday.
GetDay(d) == (d + 1) % 7

\* Utilities.formatDate(date, tz, 'MMMM d, yyyy')
FormatLong(d) == <<"July ">> \o ToDigits(d) \o <<", 2025">>

\* Utilities.formatDate(date, tz, 'yyyy-MM-dd')
FormatIso(d) ==
  <<"2025-07-">> \o (IF d < 10 THEN <<"0">> ELSE <<>>) \o ToDigits(d)

(* --------------------------- configuration ---------------------------- *)

\* `value || fallback` on a script property read as a token sequence: an
\* unset property (null) and '' are both <<>>, and both falsy.
OrElse(value, fallback) == IF value = <<>> THEN fallback ELSE value

getInboxListName(pr) == OrElse(pr.INBOX_LIST_NAME, <<"Inbox">>)

getDailyListPrefix(pr) == OrElse(pr.DAILY_LIST_PREFIX, <<"[Daily]">>)

getLogSheetId(pr) == pr.LOG_SHEET_ID

getTrackRolloverCount(pr) == pr.TRACK_ROLLOVER_COUNT # "false"

getAutoMoveDueTasks(pr) == pr.AUTO_MOVE_DUE_TASKS # "false"

getWeeklyDigestDay(pr) == ParseInt(OrElse(pr.WEEKLY_DIGEST_DAY, <<"1">>))

DefaultProps ==
  [INBOX_LIST_NAME |-> <<>>, DAILY_LIST_PREFIX |-> <<>>,
   LOG_SHEET_ID |-> "sheet-1", TRACK_ROLLOVER_COUNT |-> Null,
   AUTO_MOVE_DUE_TASKS |-> Null, WEEKLY_DIGEST_DAY |-> <<>>]

(* ------------------------------ storage ------------------------------- *)

NoId == 0

NewTaskRecord(id, orig, title, notes, due) ==
  [id |-> id, orig |-> orig, title |-> title, notes |-> notes,
   status |-> "needsAction", due |-> due, recurrence |-> "",
   links |-> <<>>, completed |-> ""]

\* String.prototype.startsWith on token sequences.
StartsWith(s, prefix) ==
  /\ Len(prefix) <= Len(s)
  /\ SubSeq(s, 1, Len(prefix)) = prefix

SeqToSet(s) == {s[i] : i \in 1..Len(s)}

\* Tasks.Tasklists.list().items: the lists' resources (id and title).
TasklistsList(ls) == [i \in 1..Len(ls) |-> [id |-> ls[i].id, title |-> ls[i].title]]

HasList(ls, id) == \E i \in 1..Len(ls) : ls[i].id = id

ListIndex(ls, id) == CHOOSE i \in 1..Len(ls) : ls[i].id = id

TasksOf(ls, id) == IF HasList(ls, id) THEN ls[ListIndex(ls, id)].tasks ELSE <<>>

\* ListService.getListByTitle: the first list with the title, or NoId.
GetListByTitle(ls, title) ==
  LET idx == {i \in 1..Len(ls) : ls[i].title = title}
  IN  IF idx = {} THEN NoId ELSE ls[Min(idx)].id

\* rolloverProcess: allLists.find(list => list.title === todayListFullName)
FindTodayListNever(allLists, todayName) == NoId

FindTodayList(allLists, todayName) ==
  LET idx == {i \in 1..Len(allLists) : allLists[i].title = todayName}
  IN  IF idx = {} THEN NoId ELSE allLists[Min(idx)].id

\* A mutant of StaleLists: the prefix is not looked at.
StaleListsAnyTitle(allLists, prefix, todayName) ==
  SelectSeq(allLists, LAMBDA l : l.title # todayName)

\* A mutant of StaleLists: today's title is not left out.
StaleListsWithToday(allLists, prefix, todayName) ==
  SelectSeq(allLists, LAMBDA l : StartsWith(l.title, prefix))

\* rolloverProcess: allLists.filter(startsWith(prefix) && title !== today)
StaleLists(allLists, prefix, todayName) ==
  SelectSeq(allLists,
            LAMBDA l : StartsWith(l.title, prefix) /\ l.title # todayName)

IsIncomplete(t) == t.status = "needsAction"

IsCompleted(t) == t.status = "completed"

\* One page of Tasks.Tasks.list: the items after `offset`, at most `maxResults`.
Page(tasks, maxResults, offset) ==
  SubSeq(tasks, offset + 1,
         IF offset + maxResults < Len(tasks) THEN offset + maxResults ELSE Len(tasks))

\* A mutant of ListIncompleteTasks: the status filter is missing.
ListIncompleteTasksUnfiltered(ls, listId) ==
  Page(TasksOf(ls, listId), DefaultMaxResults, 0)

\* TaskService.listIncompleteTasks: the first page only, filtered.
ListIncompleteTasks(ls, listId) ==
  SelectSeq(Page(TasksOf(ls, listId), DefaultMaxResults, 0), IsIncomplete)

\* A mutant of AllPages: the first page only.
FirstPage(tasks, offset) == Page(tasks, MaxResults, offset)

\* CompletedTaskService.listCompletedTasks: the do-while over the pages.
RECURSIVE AllPages(_, _)
AllPages(tasks, offset) ==
  IF offset + MaxResults < Len(tasks)
  THEN Page(tasks, MaxResults, offset) \o AllPages(tasks, offset + MaxResults)
  ELSE Page(tasks, MaxResults, offset)

ListCompletedTasks(ls, listId) ==
  SelectSeq(AllPages(TasksOf(ls, listId), 0), IsCompleted)

\* CompletedTaskService.getCompletedTasksFromList
GetCompletedTasksFromList(ls, listId) ==
  LET done == ListCompletedTasks(ls, listId)
  IN  [i \in 1..Len(done) |->
         [taskName |-> done[i].title, completed_timestamp |-> done[i].completed]]

\* Tasks.Tasks.patch({notes}, listId, taskId)
PatchNotes(ls, listId, taskId, notes) ==
  [i \in 1..Len(ls) |->
     IF ls[i].id # listId THEN ls[i]
     ELSE [ls[i] EXCEPT !.tasks =
             [j \in 1..Len(ls[i].tasks) |->
                IF ls[i].tasks[j].id = taskId
                THEN [ls[i].tasks[j] EXCEPT !.notes = notes]
                ELSE ls[i].tasks[j]]]]

\* Tasks.Tasks.insert(task, listId): a new task goes to the top of the list.
InsertTask(ls, listId, task) ==
  [i \in 1..Len(ls) |->
     IF ls[i].id # listId THEN ls[i]
     ELSE [ls[i] EXCEPT !.tasks = <<task>> \o ls[i].tasks]]

\* Tasks.Tasks.remove(listId, taskId)
RemoveTask(ls, listId, taskId) ==
  [i \in 1..Len(ls) |->
     IF ls[i].id # listId THEN ls[i]
     ELSE [ls[i] EXCEPT !.tasks = SelectSeq(ls[i].tasks, LAMBDA t : t.id # taskId)]]

\* Tasks.Tasklists.insert({title})
InsertList(ls, id, title) == Append(ls, [id |-> id, title |-> title, tasks |-> <<>>])

\* Tasks.Tasklists.remove(listId)
RemoveList(ls, listId) == SelectSeq(ls, LAMBDA l : l.id # listId)

\* A mutant of MoveOps: the source task is not removed.
MoveOpsInsertOnly == <<"insert">>

\* TaskService.move: the API calls, in order.
MoveOpsDeleteFirst == <<"remove", "insert">>

MoveOps == <<"insert", "remove">>

\* A mutant of NewTaskFrom: the new task is a copy of all fields of the source.
NewTaskFromCopy(task, id) ==
  [task EXCEPT !.id = id, !.title = MoveTitle(task), !.notes = MoveNotes(task)]

\* A mutant of NewTaskFrom: the rollover counter of the notes is updated.
NewTaskFromCounted(task, id) ==
  NewTaskRecord(id, task.orig, MoveTitle(task), RolloverNotes(MoveNotes(task)),
                task.due)

\* TaskService.move: the task handed to Tasks.Tasks.insert (title, notes and
\* due of the source; the API gives it an id and status needsAction).
NewTaskFrom(task, id) ==
  NewTaskRecord(id, task.orig, MoveTitle(task), MoveNotes(task), task.due)

\* The methods the TaskService object defines.
TaskServiceMethods == {"listIncompleteTasks", "updateNotes", "move"}

(* ------------------------------- state -------------------------------- *)

VARIABLES
  day,       \* the day of July 2025 on which the invocations run
  props,     \* the script properties
  lists,     \* the task lists, in the order Tasks.Tasklists.list returns them
  nextId,    \* the next id the Tasks API gives to a new list or task
  sheet,     \* the log spreadsheet: whether the "Runs" tab exists, its rows
  mails,     \* the calls of GmailApp.sendEmail, in order
  lock,      \* the holder of the script lock, or NoOne
  faults,    \* the collaborator calls that have thrown so far
  pc,        \* where each invocation is
  stats,     \* each invocation's stats object
  loc,       \* each invocation's local variables
  err,       \* the message of the exception each invocation caught, or Null
  hist,      \* history of each invocation (not program state)
  logCalls,  \* the calls of LoggingSheetUtil.logRun, in order (history)
  did,       \* the kinds of collaborator calls each invocation made, each
             \* with whether it held the lock (history)
  triggers,  \* the triggers of the script project, in the order
             \* ScriptApp.getProjectTriggers returns them
  spreadsheets, \* the ids of the spreadsheets SpreadsheetApp.openById opens
  fn         \* the notes of a task migrated repeatedly (SpecNotes); the
             \* declaration of getWeeklyDigestDay in force (SpecDigestDay)

vars == <<day, props, lists, nextId, sheet, mails, lock, faults, pc, stats,
          loc, err, hist, logCalls, did, triggers, spreadsheets, fn>>

Procs == 1..NumRuns

NoOne == 0

PauseNote == <<"Run paused during rollover due to execution timeout.">>

FatalNote(message) == <<"FATAL: ">> \o message

InboxNotFound(pr) ==
  <<"Inbox list \"">> \o getInboxListName(pr) \o <<"\" not found.">>

NotAFunction == <<"TaskService.listAllTasks is not a function">>

ApiError == <<"API call failed">>

MailError == <<"Mail service failed">>

HEADER_ROW == <<"Timestamp", "InboxAdds", "ListDeleted", "ListCreated", "Notes">>

SetupSubject == "GTaskManager Setup Error"

LoggingSubject == "GTaskManager Logging Failure"

DigestSubject == "GTaskManager - Weekly Digest"

DigestFailureSubject == "GTaskManager Digest Failure"

FailedSubject == "Google Tasks Script has failed!"

\* dailyRunner: the stats object of a new run.
NewStats(d) ==
  [timestamp |-> d, inboxAdds |-> 0, listDeleted |-> 0, listCreated |-> 0,
   inboxMoves |-> 0, completedTasks |-> <<>>, notes |-> <<>>]

NoTask == NewTaskRecord(NoId, NoId, <<>>, <<>>, <<>>)

NewLoc ==
  [startDay |-> 0, inboxId |-> NoId, todayListId |-> NoId, staleLists |-> <<>>,
   si |-> 1, src |-> NoId, dst |-> NoId, tasksToMove |-> <<>>, ti |-> 1,
   cur |-> NoTask, mi |-> 1]

NewHist ==
  [lists0 |-> <<>>, aborted |-> FALSE, pausedAt |-> 0, thrownAt |-> "",
   thrownOp |-> "", statsAtThrow |-> NewStats(0), escaped |-> FALSE]

\* rolloverProcess: `${dailyListPrefix} ${todayTitle}`
TodayListFullName(pr, d) == getDailyListPrefix(pr) \o <<" ">> \o FormatLong(d)

\* LoggingSheetUtil.logRun: the row appended to the sheet.
RowOf(st) == <<st.timestamp, st.inboxAdds, st.listDeleted, st.listCreated, st.notes>>

Mail(p, subject, ok) == [by |-> p, subject |-> subject, ok |-> ok]

\* ScriptApp.newTrigger(handler).timeBased().atHour(h).everyDays(1).create()
Trigger(id, handler) == [id |-> id, handler |-> handler, type |-> "CLOCK"]

\* The project as setup() leaves it: the daily trigger, and the logging
\* spreadsheet of LOG_SHEET_ID.
Deployed ==
  /\ triggers = <<Trigger(1, "dailyRunner")>>
  /\ spreadsheets = {"sheet-1"}

(* --------------------------- initial states --------------------------- *)

InitTask(id, title, notes, status, links, completed) ==
  [id |-> id, orig |-> id, title |-> <<title>>, notes |-> notes,
   status |-> status, due |-> <<>>, recurrence |-> "", links |-> links,
   completed |-> completed]

tMilk == InitTask(11, "Buy milk", <<>>, "needsAction", <<>>, "")

tBob == InitTask(12, "Call Bob", <<>>, "completed", <<>>, "T")

tRent ==
  InitTask(13, "Pay rent", <<"Rolled over before.", Sep, RC, "3">>, "needsAction",
           <<[type |-> "email", link |-> "https://mail/1"]>>, "")

tReport == InitTask(14, "Write report", <<"Some notes.">>, "needsAction", <<>>, "")

tGym == InitTask(15, "Gym", <<>>, "needsAction", <<>>, "")

tDone == InitTask(18, "File taxes", <<>>, "completed", <<>>, "T")

tKeep == InitTask(16, "Read book", <<>>, "needsAction", <<>>, "")

tWork == InitTask(17, "Ship release", <<>>, "needsAction", <<>>, "")

\* Tasks with a due timestamp, as the Tasks API returns it (RFC 3339).
DueTask(id, title, notes, links, d, time, recurrence) ==
  [InitTask(id, title, notes, "needsAction", links, "") EXCEPT
     !.due = FormatIso(d) \o <<time>>, !.recurrence = recurrence]

tDue(d) == DueTask(21, "Pay bill", <<>>, <<>>, d, "T00:00:00.000Z", "")

tLate(d) == DueTask(22, "Call back", <<>>, <<>>, d, "T23:59:00.000Z", "")

tWeekly(d) ==
  DueTask(23, "Weekly review", <<>>, <<>>, d, "T00:00:00.000Z", "RRULE:FREQ=WEEKLY")

tTomorrow(d) == DueTask(24, "Book flight", <<>>, <<>>, d + 1, "T00:00:00.000Z", "")

tTomorrowLate(d) ==
  DueTask(26, "Pack bags", <<>>, <<>>, d + 1, "T23:59:00.000Z", "")

tMail(d) ==
  DueTask(25, "Answer mail", <<"Soon.", Sep, RC, "2">>,
          <<[type |-> "email", link |-> "https://mail/2"]>>, d, "T00:00:00.000Z", "")

InboxList(tasks) == [id |-> 1, title |-> <<"Inbox">>, tasks |-> tasks]

DailyList(id, d, tasks) ==
  [id |-> id, title |-> <<"[Daily]", " ">> \o FormatLong(d), tasks |-> tasks]

WorkList(tasks) == [id |-> 9, title |-> <<"Work">>, tasks |-> tasks]

\* The end-to-end scenario: an inbox and one stale list, none for today.
ScEndToEnd == <<InboxList(<<>>), DailyList(2, 9, <<tMilk, tBob>>)>>

ScNoInbox == <<DailyList(2, 9, <<tMilk>>), WorkList(<<tWork>>)>>

ScToday(d) ==
  <<DailyList(2, 9, <<tBob, tMilk>>), InboxList(<<tKeep, tDue(d), tWeekly(d)>>),
    DailyList(3, d, <<tGym>>)>>

\* A stale list longer than one default page.
ScLong == <<InboxList(<<>>), DailyList(2, 6, <<tRent, tReport, tGym>>)>>

\* A stale list that is longer than one page of listCompletedTasks when its
\* completed tasks are read, with a completed task on the second page.
ScPages ==
  <<InboxList(<<>>), DailyList(2, 6, <<tBob, tRent, tReport, tGym, tDone>>)>>

ScMany(d) ==
  <<WorkList(<<tWork>>), DailyList(2, 5, <<>>), InboxList(<<tKeep>>),
    DailyList(3, 6, <<tReport>>), DailyList(4, 9, <<tMilk>>), DailyList(5, d, <<>>)>>

AutoMoveOff == [DefaultProps EXCEPT !.AUTO_MOVE_DUE_TASKS = "false"]

TrackOff == [AutoMoveOff EXCEPT !.TRACK_ROLLOVER_COUNT = "false"]

NoSheet == [AutoMoveOff EXCEPT !.LOG_SHEET_ID = Null]

NoTracking == [DefaultProps EXCEPT !.TRACK_ROLLOVER_COUNT = "false"]

Case(d, pr, ls) == [day |-> d, props |-> pr, lists |-> ls]

\* The day, the script properties and the lists the invocations start from.
\* July 7, 2025 is a Monday (the default digest day), July 10 a Thursday.
InitCases ==
  {Case(10, DefaultProps, ScEndToEnd), Case(10, DefaultProps, ScNoInbox),
   Case(10, DefaultProps, ScToday(10)), Case(10, DefaultProps, ScLong),
   Case(10, TrackOff, ScPages), Case(7, AutoMoveOff, ScEndToEnd),
   Case(7, AutoMoveOff, ScToday(7)), Case(10, AutoMoveOff, ScMany(10)),
   Case(7, NoSheet, ScEndToEnd)}

FnIdle == [notes0 |-> <<>>, links |-> <<>>, notes |-> <<>>, n |-> 0]

Init ==
  /\ \E c \in InitCases : day = c.day /\ props = c.props /\ lists = c.lists
  /\ nextId = 50
  /\ sheet = [tab |-> FALSE, rows |-> <<>>]
  /\ mails = <<>>
  /\ lock = NoOne
  /\ faults = 0
  /\ pc = [p \in Procs |-> "idle"]
  /\ stats = [p \in Procs |-> NewStats(0)]
  /\ loc = [p \in Procs |-> NewLoc]
  /\ err = [p \in Procs |-> <<>>]
  /\ hist = [p \in Procs |-> NewHist]
  /\ logCalls = <<>>
  /\ did = [p \in Procs |-> {}]
  /\ Deployed
  /\ fn = FnIdle

(* ------------------------------ dailyRunner --------------------------- *)

env == <<day, props, fn, triggers, spreadsheets>>

\* An exception thrown inside the try block of dailyRunner.
ThrowFrom(p, message, op) ==
  /\ pc' = [pc EXCEPT ![p] = "catchLog"]
  /\ err' = [err EXCEPT ![p] = message]
  /\ hist' = [hist EXCEPT ![p].thrownAt = pc[p], ![p].thrownOp = op,
                          ![p].statsAtThrow = stats[p]]

\* History: invocation p makes collaborator calls of these kinds, each
\* recorded with whether p holds the script lock at the call.
Does(p, kinds) ==
  did' = [did EXCEPT ![p] = @ \cup {<<k, lock = p>> : k \in kinds}]

\* dailyRunner: where the run goes after lock.tryLock(30000).
PcAfterTryLockIgnored(acquired) == "setup"

PcAfterTryLock(acquired) == IF acquired THEN "setup" ELSE "done"

\* Invocations are alike: they are numbered in the order in which their
\* tryLock calls return.
InOrder(p) == \A q \in Procs : q < p => pc[q] # "idle"

\* lock.tryLock(30000) returns true.
Acquire(p) ==
  /\ pc[p] = "idle"
  /\ InOrder(p)
  /\ lock = NoOne
  /\ lock' = p
  /\ pc' = [pc EXCEPT ![p] = PcAfterTryLock(TRUE)]
  /\ stats' = [stats EXCEPT ![p] = NewStats(day)]
  /\ loc' = [loc EXCEPT ![p].startDay = day]
  /\ hist' = [hist EXCEPT ![p].lists0 = lists]
  /\ UNCHANGED <<env, lists, nextId, sheet, mails, faults, err, logCalls, did>>

\* A mutant of LockTimeout: the deferral is logged as a run.
LockTimeoutLogged(p) ==
  /\ pc[p] = "idle"
  /\ InOrder(p)
  /\ lock # NoOne
  /\ pc' = [pc EXCEPT ![p] = PcAfterTryLock(FALSE)]
  /\ hist' = [hist EXCEPT ![p].aborted = TRUE]
  /\ logCalls' = Append(logCalls, [by |-> p, stat |-> NewStats(day)])
  /\ Does(p, {"log"})
  /\ UNCHANGED <<env, lists, nextId, sheet, mails, lock, faults, stats, loc, err>>

\* lock.tryLock(30000) returns false: another invocation held the lock for
\* the whole wait.
LockTimeout(p) ==
  /\ pc[p] = "idle"
  /\ InOrder(p)
  /\ lock # NoOne
  /\ pc' = [pc EXCEPT ![p] = PcAfterTryLock(FALSE)]
  /\ hist' = [hist EXCEPT ![p].aborted = TRUE]
  /\ UNCHANGED <<env, lists, nextId, sheet, mails, lock, faults, stats, loc,
                 err, logCalls, did>>

(* LoggingSheetUtil.setup, the first statement of rolloverProcess. *)

SetupSkip(p) ==
  /\ pc[p] = "setup"
  /\ getLogSheetId(props) = Null
  /\ pc' = [pc EXCEPT ![p] = "getInbox"]
  /\ UNCHANGED <<env, lists, nextId, sheet, mails, lock, faults, stats, loc,
                 err, hist, logCalls, did>>

SetupOk(p) ==
  /\ pc[p] = "setup"
  /\ getLogSheetId(props) # Null
  /\ sheet' = IF sheet.tab THEN sheet ELSE [tab |-> TRUE, rows |-> <<HEADER_ROW>>]
  /\ pc' = [pc EXCEPT ![p] = "getInbox"]
  /\ Does(p, {"sheet"})
  /\ UNCHANGED <<env, lists, nextId, mails, lock, faults, stats, loc, err,
                 hist, logCalls>>

\* The spreadsheet call throws; the catch block mails the user.
SetupFailMailed(p) ==
  /\ pc[p] = "setup"
  /\ getLogSheetId(props) # Null
  /\ faults < MaxFaults
  /\ faults' = faults + 1
  /\ mails' = Append(mails, Mail(p, SetupSubject, TRUE))
  /\ pc' = [pc EXCEPT ![p] = "getInbox"]
  /\ Does(p, {"sheet", "mail"})
  /\ UNCHANGED <<env, lists, nextId, sheet, lock, stats, loc, err, hist, logCalls>>

\* The spreadsheet call throws and GmailApp.sendEmail in the catch block
\* throws too: the exception leaves setup and rolloverProcess.
SetupThrows(p) ==
  /\ pc[p] = "setup"
  /\ getLogSheetId(props) # Null
  /\ faults + 2 <= MaxFaults
  /\ faults' = faults + 2
  /\ mails' = Append(mails, Mail(p, SetupSubject, FALSE))
  /\ ThrowFrom(p, MailError, "setup")
  /\ Does(p, {"sheet", "mail"})
  /\ UNCHANGED <<env, lists, nextId, sheet, lock, stats, loc, logCalls>>

(* --------------------------- rolloverProcess -------------------------- *)

\* ListService.getListByTitle(getInboxListName()), and the throw on null.
GetInbox(p) ==
  /\ pc[p] = "getInbox"
  /\ LET inboxId == GetListByTitle(lists, getInboxListName(props))
     IN  IF inboxId = NoId
         THEN /\ ThrowFrom(p, InboxNotFound(props), "getListByTitle")
              /\ loc' = loc
         ELSE /\ pc' = [pc EXCEPT ![p] = "listAll"]
              /\ loc' = [loc EXCEPT ![p].inboxId = inboxId]
              /\ UNCHANGED <<err, hist>>
  /\ Does(p, {"storage"})
  /\ UNCHANGED <<env, lists, nextId, sheet, mails, lock, faults, stats, logCalls>>

\* ListService.listAll(), today's list and the stale lists.
ListAll(p) ==
  /\ pc[p] = "listAll"
  /\ LET allLists == TasklistsList(lists)
         todayName == TodayListFullName(props, loc[p].startDay)
     IN  loc' = [loc EXCEPT
                   ![p].todayListId = FindTodayList(allLists, todayName),
                   ![p].staleLists =
                      StaleLists(allLists, getDailyListPrefix(props), todayName),
                   ![p].si = 1]
  /\ pc' = [pc EXCEPT ![p] = "sweep"]
  /\ Does(p, {"storage"})
  /\ UNCHANGED <<env, lists, nextId, sheet, mails, lock, faults, stats, err,
                 hist, logCalls>>

\* The places of the run where the elapsed time is compared with the budget.
BudgetCheckedInTaskLoop == {"sweep", "patch", "move"}

BudgetCheckedAt == {"sweep"}

\* The budget check finds the time exceeded: note, break.
SweepPause(p) ==
  /\ pc[p] \in BudgetCheckedAt
  /\ loc[p].si <= Len(loc[p].staleLists)
  /\ stats' = [stats EXCEPT ![p].notes = PauseNote]
  /\ hist' = [hist EXCEPT ![p].pausedAt = loc[p].si]
  /\ pc' = [pc EXCEPT ![p] = "ensure"]
  /\ UNCHANGED <<env, lists, nextId, sheet, mails, lock, faults, loc, err,
                 logCalls, did>>

\* The loop over the stale lists is exhausted.
SweepEnd(p) ==
  /\ pc[p] = "sweep"
  /\ loc[p].si > Len(loc[p].staleLists)
  /\ pc' = [pc EXCEPT ![p] = "ensure"]
  /\ UNCHANGED <<env, lists, nextId, sheet, mails, lock, faults, stats, loc,
                 err, hist, logCalls, did>>

\* A mutant of TaskPc: the counter is written whatever the property says.
TaskPcAlwaysPatch == "patch"

\* migrateIncompleteTasks: where the loop body starts for a task.
TaskPc == IF getTrackRolloverCount(props) THEN "patch" ELSE "move"

\* migrateIncompleteTasks: the locals at the start of the loop body for task i.
EnterTask(l, i) ==
  [l EXCEPT !.ti = i, !.mi = 1,
            !.cur = IF getTrackRolloverCount(props) THEN NoTask
                    ELSE l.tasksToMove[i]]

\* The budget is not exceeded: migrateIncompleteTasks starts with
\* TaskService.listIncompleteTasks(sourceListId).
SweepList(p) ==
  /\ pc[p] = "sweep"
  /\ loc[p].si <= Len(loc[p].staleLists)
  /\ LET src == loc[p].staleLists[loc[p].si].id
         tasksToMove == ListIncompleteTasks(lists, src)
         l == [loc[p] EXCEPT !.src = src, !.dst = loc[p].inboxId,
                             !.tasksToMove = tasksToMove]
     IN  IF tasksToMove = <<>>
         THEN /\ loc' = [loc EXCEPT ![p] = l]
              /\ pc' = [pc EXCEPT ![p] = "completed"]
         ELSE /\ loc' = [loc EXCEPT ![p] = EnterTask(l, 1)]
              /\ pc' = [pc EXCEPT ![p] = TaskPc]
  /\ Does(p, {"storage"})
  /\ UNCHANGED <<env, lists, nextId, sheet, mails, lock, faults, stats, err,
                 hist, logCalls>>

\* A mutant of UpdateNotes: the task as it was listed, not the result of
\* TaskService.updateNotes, is handed to move.
UpdateNotesNotUsed(p) ==
  /\ pc[p] = "patch"
  /\ LET task == loc[p].tasksToMove[loc[p].ti]
     IN  /\ lists' = PatchNotes(lists, loc[p].src, task.id, RolloverNotes(task.notes))
         /\ loc' = [loc EXCEPT ![p].cur = task, ![p].mi = 1]
  /\ pc' = [pc EXCEPT ![p] = "move"]
  /\ Does(p, {"storage"})
  /\ UNCHANGED <<env, nextId, sheet, mails, lock, faults, stats, err, hist,
                 logCalls>>

\* migrateIncompleteTasks with tracking: the new notes, and
\* TaskService.updateNotes, whose result is the task handed to move.
UpdateNotes(p) ==
  /\ pc[p] = "patch"
  /\ LET task == loc[p].tasksToMove[loc[p].ti]
         notes == RolloverNotes(task.notes)
         patched == PatchNotes(lists, loc[p].src, task.id, notes)
         found == SelectSeq(TasksOf(patched, loc[p].src), LAMBDA t : t.id = task.id)
     IN  /\ found # <<>>
         /\ lists' = patched
         /\ loc' = [loc EXCEPT ![p].cur = found[1], ![p].mi = 1]
  /\ pc' = [pc EXCEPT ![p] = "move"]
  /\ Does(p, {"storage"})
  /\ UNCHANGED <<env, nextId, sheet, mails, lock, faults, stats, err, hist,
                 logCalls>>

\* TaskService.move: one API call of MoveOps; after the last one the loop of
\* migrateIncompleteTasks goes to the next task, or returns the count, which
\* rolloverProcess adds to stats.inboxAdds.
MoveStep(p) ==
  /\ pc[p] = "move"
  /\ LET l == loc[p]
         op == MoveOps[l.mi]
     IN  /\ IF op = "insert"
            THEN /\ lists' = InsertTask(lists, l.dst, NewTaskFrom(l.cur, nextId))
                 /\ nextId' = nextId + 1
            ELSE /\ lists' = RemoveTask(lists, l.src, l.cur.id)
                 /\ nextId' = nextId
         /\ IF l.mi < Len(MoveOps)
            THEN /\ loc' = [loc EXCEPT ![p].mi = l.mi + 1]
                 /\ UNCHANGED <<pc, stats>>
            ELSE IF l.ti < Len(l.tasksToMove)
            THEN /\ loc' = [loc EXCEPT ![p] = EnterTask(l, l.ti + 1)]
                 /\ pc' = [pc EXCEPT ![p] = TaskPc]
                 /\ UNCHANGED stats
            ELSE /\ loc' = [loc EXCEPT ![p].cur = NoTask, ![p].mi = 1]
                 /\ pc' = [pc EXCEPT ![p] = "completed"]
                 /\ stats' = [stats EXCEPT ![p].inboxAdds = @ + Len(l.tasksToMove)]
  /\ Does(p, {"storage"})
  /\ UNCHANGED <<env, sheet, mails, lock, faults, err, hist, logCalls>>

\* stats.completedTasks.push(...getCompletedTasksFromList(staleList.id))
Completed(p) ==
  /\ pc[p] = "completed"
  /\ stats' = [stats EXCEPT ![p].completedTasks =
                 @ \o GetCompletedTasksFromList(lists, loc[p].src)]
  /\ pc' = [pc EXCEPT ![p] = "delete"]
  /\ Does(p, {"storage"})
  /\ UNCHANGED <<env, lists, nextId, sheet, mails, lock, faults, loc, err,
                 hist, logCalls>>

\* A mutant of DeleteList: the deletion is not counted.
DeleteListUncounted(p) ==
  /\ pc[p] = "delete"
  /\ lists' = RemoveList(lists, loc[p].src)
  /\ loc' = [loc EXCEPT ![p].si = @ + 1, ![p].src = NoId, ![p].dst = NoId,
                        ![p].tasksToMove = <<>>, ![p].ti = 1]
  /\ pc' = [pc EXCEPT ![p] = "sweep"]
  /\ Does(p, {"storage"})
  /\ UNCHANGED <<env, nextId, sheet, mails, lock, faults, stats, err, hist,
                 logCalls>>

\* A mutant of DeleteList: the deletion is counted and the list is left in
\* place.
DeleteListKeeps(p) ==
  /\ pc[p] = "delete"
  /\ stats' = [stats EXCEPT ![p].listDeleted = @ + 1]
  /\ loc' = [loc EXCEPT ![p].si = @ + 1, ![p].src = NoId, ![p].dst = NoId,
                        ![p].tasksToMove = <<>>, ![p].ti = 1]
  /\ pc' = [pc EXCEPT ![p] = "sweep"]
  /\ Does(p, {"storage"})
  /\ UNCHANGED <<env, lists, nextId, sheet, mails, lock, faults, err, hist,
                 logCalls>>

\* ListService.deleteList(staleList.id); stats.listDeleted++
DeleteList(p) ==
  /\ pc[p] = "delete"
  /\ lists' = RemoveList(lists, loc[p].src)
  /\ stats' = [stats EXCEPT ![p].listDeleted = @ + 1]
  /\ loc' = [loc EXCEPT ![p].si = @ + 1, ![p].src = NoId, ![p].dst = NoId,
                        ![p].tasksToMove = <<>>, ![p].ti = 1]
  /\ pc' = [pc EXCEPT ![p] = "sweep"]
  /\ Does(p, {"storage"})
  /\ UNCHANGED <<env, nextId, sheet, mails, lock, faults, err, hist, logCalls>>

\* dailyRunner: after rolloverProcess, the inbox sweep if it is enabled.
PcAfterRollover == IF getAutoMoveDueTasks(props) THEN "inbox" ELSE "log"

\* if (!todayList): a list for today was found, nothing is created.
EnsureTodayExists(p) ==
  /\ pc[p] = "ensure"
  /\ loc[p].todayListId # NoId
  /\ pc' = [pc EXCEPT ![p] = PcAfterRollover]
  /\ UNCHANGED <<env, lists, nextId, sheet, mails, lock, faults, stats, loc,
                 err, hist, logCalls, did>>

\* if (!todayList): ListService.createList(todayListFullName); listCreated++
EnsureTodayCreate(p) ==
  /\ pc[p] = "ensure"
  /\ loc[p].todayListId = NoId
  /\ lists' = InsertList(lists, nextId, TodayListFullName(props, loc[p].startDay))
  /\ nextId' = nextId + 1
  /\ stats' = [stats EXCEPT ![p].listCreated = @ + 1]
  /\ loc' = [loc EXCEPT ![p].todayListId = nextId]
  /\ pc' = [pc EXCEPT ![p] = PcAfterRollover]
  /\ Does(p, {"storage"})
  /\ UNCHANGED <<env, sheet, mails, lock, faults, err, hist, logCalls>>

\* Whether the invocation is at a call of the Tasks API.
AtStorageCall(p) ==
  \/ pc[p] \in {"getInbox", "listAll", "patch", "move", "completed", "delete"}
  \/ pc[p] = "sweep" /\ loc[p].si <= Len(loc[p].staleLists)
  \/ pc[p] = "ensure" /\ loc[p].todayListId = NoId

\* A mutant of StorageFault: an exception in the body of the loop over the
\* stale lists is caught there, and the loop goes on with the next list.
StorageFaultIsolated(p) ==
  /\ AtStorageCall(p)
  /\ faults < MaxFaults
  /\ faults' = faults + 1
  /\ err' = [err EXCEPT ![p] = ApiError]
  /\ hist' = [hist EXCEPT ![p].thrownAt = pc[p], ![p].thrownOp = pc[p],
                          ![p].statsAtThrow = stats[p]]
  /\ IF pc[p] \in {"sweep", "patch", "move", "completed", "delete"}
     THEN /\ pc' = [pc EXCEPT ![p] = "sweep"]
          /\ loc' = [loc EXCEPT ![p].si = @ + 1]
     ELSE /\ pc' = [pc EXCEPT ![p] = "catchLog"]
          /\ loc' = loc
  /\ Does(p, {"storage"})
  /\ UNCHANGED <<env, lists, nextId, sheet, mails, lock, stats, logCalls>>

\* The Tasks API call the invocation is at throws.
StorageFault(p) ==
  /\ AtStorageCall(p)
  /\ faults < MaxFaults
  /\ faults' = faults + 1
  /\ ThrowFrom(p, ApiError, IF pc[p] = "move" THEN MoveOps[loc[p].mi] ELSE pc[p])
  /\ Does(p, {"storage"})
  /\ UNCHANGED <<env, lists, nextId, sheet, mails, lock, stats, loc, logCalls>>

\* processInboxTasks: its first statement calls TaskService.listAllTasks,
\* which TaskService does not define, so the call throws a TypeError.
InboxSweep(p) ==
  /\ pc[p] = "inbox"
  /\ "listAllTasks" \notin TaskServiceMethods
  /\ ThrowFrom(p, NotAFunction, "listAllTasks")
  /\ UNCHANGED <<env, lists, nextId, sheet, mails, lock, faults, stats, loc,
                 logCalls, did>>

(* ------------------- LoggingSheetUtil.logRun, digest ------------------ *)

LogOutcomes == {"nosheet", "notab", "row", "mailed", "throws"}

\* LoggingSheetUtil.logRun(st) called by invocation p, with outcome o:
\*   nosheet  no LOG_SHEET_ID, silent return
\*   notab    the sheet has no "Runs" tab, console.error and return
\*   row      the row is appended
\*   mailed   a spreadsheet call throws, the catch block mails the user
\*   throws   a spreadsheet call throws and GmailApp.sendEmail in the catch
\*            block throws: the exception leaves logRun
LogRunCall(p, o, st) ==
  /\ logCalls' = Append(logCalls, [by |-> p, stat |-> st])
  /\ CASE o = "nosheet" ->
            /\ getLogSheetId(props) = Null
            /\ Does(p, {"log"})
            /\ UNCHANGED <<sheet, mails, faults>>
       [] o = "notab" ->
            /\ getLogSheetId(props) # Null
            /\ ~sheet.tab
            /\ Does(p, {"log", "sheet"})
            /\ UNCHANGED <<sheet, mails, faults>>
       [] o = "row" ->
            /\ getLogSheetId(props) # Null
            /\ sheet.tab
            /\ sheet' = [sheet EXCEPT !.rows = Append(@, RowOf(st))]
            /\ Does(p, {"log", "sheet"})
            /\ UNCHANGED <<mails, faults>>
       [] o = "mailed" ->
            /\ getLogSheetId(props) # Null
            /\ faults < MaxFaults
            /\ faults' = faults + 1
            /\ mails' = Append(mails, Mail(p, LoggingSubject, TRUE))
            /\ Does(p, {"log", "sheet", "mail"})
            /\ UNCHANGED sheet
       [] o = "throws" ->
            /\ getLogSheetId(props) # Null
            /\ faults + 2 <= MaxFaults
            /\ faults' = faults + 2
            /\ mails' = Append(mails, Mail(p, LoggingSubject, FALSE))
            /\ Does(p, {"log", "sheet", "mail"})
            /\ UNCHANGED sheet

\* A mutant of PcAfterLog: the digest is triggered on every day.
PcAfterLogEveryDay(p) == "digest"

\* dailyRunner: after logRun, the digest on the digest day.
PcAfterLog(p) ==
  IF GetDay(loc[p].startDay) = getWeeklyDigestDay(props) THEN "digest"
  ELSE "finally"

\* LoggingSheetUtil.logRun(stats) in the try block.
LogRun(p) ==
  /\ pc[p] = "log"
  /\ \E o \in LogOutcomes :
       /\ LogRunCall(p, o, stats[p])
       /\ IF o = "throws"
          THEN ThrowFrom(p, MailError, "logRun")
          ELSE /\ pc' = [pc EXCEPT ![p] = PcAfterLog(p)]
               /\ UNCHANGED <<err, hist>>
  /\ UNCHANGED <<env, lists, nextId, lock, stats, loc>>

DigestOutcomes ==
  {"nosheet", "notab", "sent", "sheetFailMailed", "mailFailMailed",
   "sheetFailThrows", "mailFailThrows"}

\* DigestMailer.sendWeeklyDigest() with outcome o: without LOG_SHEET_ID or
\* without the "Runs" tab it returns; it sends the digest; or a spreadsheet
\* call or the sending throws inside its try block and its catch block sends
\* the failure mail, which may throw in turn.
Digest(p) ==
  /\ pc[p] = "digest"
  /\ \E o \in DigestOutcomes :
       /\ CASE o = "nosheet" ->
                 /\ getLogSheetId(props) = Null
                 /\ Does(p, {"digest"})
                 /\ UNCHANGED <<mails, faults>>
            [] o = "notab" ->
                 /\ getLogSheetId(props) # Null
                 /\ ~sheet.tab
                 /\ Does(p, {"digest", "sheet"})
                 /\ UNCHANGED <<mails, faults>>
            [] o = "sent" ->
                 /\ getLogSheetId(props) # Null
                 /\ sheet.tab
                 /\ mails' = Append(mails, Mail(p, DigestSubject, TRUE))
                 /\ Does(p, {"digest", "sheet", "mail"})
                 /\ UNCHANGED faults
            [] o \in {"sheetFailMailed", "sheetFailThrows"} ->
                 /\ getLogSheetId(props) # Null
                 /\ faults + (IF o = "sheetFailThrows" THEN 2 ELSE 1) <= MaxFaults
                 /\ faults' = faults + (IF o = "sheetFailThrows" THEN 2 ELSE 1)
                 /\ mails' = Append(mails,
                       Mail(p, DigestFailureSubject, o = "sheetFailMailed"))
                 /\ Does(p, {"digest", "sheet", "mail"})
            [] o \in {"mailFailMailed", "mailFailThrows"} ->
                 /\ getLogSheetId(props) # Null
                 /\ sheet.tab
                 /\ faults + (IF o = "mailFailThrows" THEN 2 ELSE 1) <= MaxFaults
                 /\ faults' = faults + (IF o = "mailFailThrows" THEN 2 ELSE 1)
                 /\ mails' = mails \o
                       <<Mail(p, DigestSubject, FALSE),
                         Mail(p, DigestFailureSubject, o = "mailFailMailed")>>
                 /\ Does(p, {"digest", "sheet", "mail"})
       /\ IF o \in {"sheetFailThrows", "mailFailThrows"}
          THEN ThrowFrom(p, MailError, "sendWeeklyDigest")
          ELSE /\ pc' = [pc EXCEPT ![p] = "finally"]
               /\ UNCHANGED <<err, hist>>
  /\ UNCHANGED <<env, lists, nextId, sheet, lock, stats, loc, logCalls>>

(* ------------------------- catch and finally -------------------------- *)

\* catch (e): stats.notes = `FATAL: ${e.message}`; logRun(stats).  An
\* exception thrown here leaves dailyRunner through the finally block.
CatchLog(p) ==
  /\ pc[p] = "catchLog"
  /\ stats' = [stats EXCEPT ![p].notes = FatalNote(err[p])]
  /\ \E o \in LogOutcomes :
       /\ LogRunCall(p, o, stats'[p])
       /\ IF o = "throws"
          THEN /\ pc' = [pc EXCEPT ![p] = "finally"]
               /\ hist' = [hist EXCEPT ![p].escaped = TRUE]
          ELSE /\ pc' = [pc EXCEPT ![p] = "catchMail"]
               /\ UNCHANGED hist
  /\ UNCHANGED <<env, lists, nextId, lock, loc, err>>

\* catch (e): GmailApp.sendEmail(..., 'Google Tasks Script has failed!', ...)
CatchMail(p) ==
  /\ pc[p] = "catchMail"
  /\ \/ /\ mails' = Append(mails, Mail(p, FailedSubject, TRUE))
        /\ UNCHANGED <<faults, hist>>
     \/ /\ faults < MaxFaults
        /\ faults' = faults + 1
        /\ mails' = Append(mails, Mail(p, FailedSubject, FALSE))
        /\ hist' = [hist EXCEPT ![p].escaped = TRUE]
  /\ pc' = [pc EXCEPT ![p] = "finally"]
  /\ Does(p, {"mail"})
  /\ UNCHANGED <<env, lists, nextId, sheet, lock, stats, loc, err, logCalls>>

\* A mutant of Finally: the lock is released at the end of the try and catch
\* blocks, not in a finally block, so not when an exception leaves the catch.
ReleaseAtEndOfBlocks(p) ==
  /\ pc[p] = "finally"
  /\ lock' = IF hist[p].escaped THEN lock ELSE NoOne
  /\ pc' = [pc EXCEPT ![p] = "done"]
  /\ loc' = [loc EXCEPT ![p] = NewLoc]
  /\ Does(p, {"release"})
  /\ UNCHANGED <<env, lists, nextId, sheet, mails, faults, stats, err, hist,
                 logCalls>>

\* finally: lock.releaseLock(); the invocation ends.
Finally(p) ==
  /\ pc[p] = "finally"
  /\ lock' = NoOne
  /\ pc' = [pc EXCEPT ![p] = "done"]
  /\ loc' = [loc EXCEPT ![p] = NewLoc]
  /\ Does(p, {"release"})
  /\ UNCHANGED <<env, lists, nextId, sheet, mails, faults, stats, err, hist,
                 logCalls>>

Next ==
  \E p \in Procs :
    \/ Acquire(p) \/ LockTimeout(p)
    \/ SetupSkip(p) \/ SetupOk(p) \/ SetupFailMailed(p) \/ SetupThrows(p)
    \/ GetInbox(p) \/ ListAll(p)
    \/ SweepPause(p) \/ SweepEnd(p) \/ SweepList(p)
    \/ UpdateNotes(p) \/ MoveStep(p) \/ Completed(p) \/ DeleteList(p)
    \/ EnsureTodayExists(p) \/ EnsureTodayCreate(p)
    \/ StorageFault(p) \/ InboxSweep(p)
    \/ LogRun(p) \/ Digest(p)
    \/ CatchLog(p) \/ CatchMail(p) \/ Finally(p)

Spec == Init /\ [][Next]_vars

(* ------------- one task migrated repeatedly (SpecNotes) --------------- *)

NotesAlphabet == {RC, "0", "9", "text"}

SeqsUpTo(S, n) == UNION {[1..k -> S] : k \in 0..n}

LinkChoices == {<<>>, <<[type |-> "email", link |-> "https://mail/1"]>>}

\* A task in a stale list, with any notes over the alphabet.
InitNotes ==
  /\ day = 10
  /\ props = DefaultProps
  /\ lists = <<>>
  /\ nextId = 50
  /\ sheet = [tab |-> FALSE, rows |-> <<>>]
  /\ mails = <<>>
  /\ lock = NoOne
  /\ faults = 0
  /\ pc = [p \in Procs |-> "done"]
  /\ stats = [p \in Procs |-> NewStats(0)]
  /\ loc = [p \in Procs |-> NewLoc]
  /\ err = [p \in Procs |-> <<>>]
  /\ hist = [p \in Procs |-> NewHist]
  /\ logCalls = <<>>
  /\ did = [p \in Procs |-> {}]
  /\ Deployed
  /\ \E notes \in SeqsUpTo(NotesAlphabet, MaxNotesLen), links \in LinkChoices :
       fn = [notes0 |-> notes, links |-> links, notes |-> notes, n |-> 0]

\* One pass of the loop body of migrateIncompleteTasks with tracking enabled:
\* the notes are updated and patched, the patched task is moved.  The new
\* task has no links.
MigrateOnce ==
  /\ fn.n < MaxMigrations
  /\ LET task == [NoTask EXCEPT !.notes = RolloverNotes(fn.notes),
                               !.links = fn.links]
     IN  fn' = [fn EXCEPT !.notes = NewTaskFrom(task, nextId).notes,
                          !.links = NewTaskFrom(task, nextId).links,
                          !.n = @ + 1]
  /\ UNCHANGED <<day, props, lists, nextId, sheet, mails, lock, faults, pc,
                 stats, loc, err, hist, logCalls, did, triggers, spreadsheets>>

NextNotes == MigrateOnce

SpecNotes == InitNotes /\ [][NextNotes]_vars

(* ---------- the loop of processInboxTasks (SpecInbox) ------------------ *)

\* Tasks of the inbox handed to one sweep, at most.
MaxInbox == 3

\* TaskService.listAllTasks(listId): the design document names it among the
\* methods of TaskService (every task of the list); no source file defines it.
ListAllTasks(ls, listId) == TasksOf(ls, listId)

\* task.due.substring(0, 10) of an RFC 3339 timestamp: "2025-07-" and two
\* digits.
DueDate(due) == SubSeq(due, 1, IF Len(due) < 3 THEN Len(due) ELSE 3)

\* A mutant of SkipsTask: the recurrence rule is not looked at.
SkipsTaskNoRecurrence(task) == task.due = <<>>

\* processInboxTasks: if (!task.due || task.recurrence) continue
SkipsTask(task) == task.due = <<>> \/ task.recurrence # ""

\* A mutant of IsDueToday: the whole timestamp is compared with midnight of
\* today.
IsDueTodayExact(task, d) == task.due = FormatIso(d) \o <<"T00:00:00.000Z">>

\* processInboxTasks: taskDueDate === todayDateString
IsDueToday(task, d) == DueDate(task.due) = FormatIso(d)

InboxPool(d) ==
  {tDue(d), tLate(d), tWeekly(d), tTomorrow(d), tTomorrowLate(d), tMail(d), tKeep}

\* The sequences without repetition of at most n elements of S.
InjectiveSeqs(S, n) ==
  {q \in SeqsUpTo(S, n) : \A i, j \in 1..Len(q) : i # j => q[i] # q[j]}

\* dailyRunner is at the call of processInboxTasks(todayListId, inboxId,
\* stats): rolloverProcess has returned, there are an inbox and a list for
\* today.
InitInbox ==
  /\ day = 10
  /\ props \in {DefaultProps, NoTracking}
  /\ \E tasks \in InjectiveSeqs(InboxPool(10), MaxInbox) :
       lists = <<InboxList(tasks), DailyList(3, 10, <<tGym>>)>>
  /\ nextId = 50
  /\ sheet = [tab |-> TRUE, rows |-> <<HEADER_ROW>>]
  /\ mails = <<>>
  /\ lock = 1
  /\ faults = 0
  /\ pc = [p \in Procs |-> IF p = 1 THEN "inboxList" ELSE "idle"]
  /\ stats = [p \in Procs |-> IF p = 1 THEN NewStats(10) ELSE NewStats(0)]
  /\ loc = [p \in Procs |->
              IF p = 1
              THEN [NewLoc EXCEPT !.startDay = 10, !.inboxId = 1, !.todayListId = 3]
              ELSE NewLoc]
  /\ err = [p \in Procs |-> <<>>]
  /\ hist = [p \in Procs |->
               IF p = 1 THEN [NewHist EXCEPT !.lists0 = lists] ELSE NewHist]
  /\ logCalls = <<>>
  /\ did = [p \in Procs |-> {}]
  /\ Deployed
  /\ fn = FnIdle

\* const tasks = TaskService.listAllTasks(inboxId), with the method defined.
InboxListAll(p) ==
  /\ pc[p] = "inboxList"
  /\ loc' = [loc EXCEPT ![p].tasksToMove = ListAllTasks(lists, loc[p].inboxId),
                        ![p].src = loc[p].inboxId, ![p].dst = loc[p].todayListId,
                        ![p].ti = 1, ![p].mi = 1, ![p].cur = NoTask]
  /\ pc' = [pc EXCEPT ![p] = "inboxLoop"]
  /\ Does(p, {"storage"})
  /\ UNCHANGED <<env, lists, nextId, sheet, mails, lock, faults, stats, err,
                 hist, logCalls>>

\* The loop body up to the call of TaskService.move: the task is skipped, or
\* it is due today and handed to move.
InboxNext(p) ==
  /\ pc[p] = "inboxLoop"
  /\ loc[p].ti <= Len(loc[p].tasksToMove)
  /\ LET task == loc[p].tasksToMove[loc[p].ti]
     IN  IF SkipsTask(task) \/ ~IsDueToday(task, day)
         THEN /\ loc' = [loc EXCEPT ![p].ti = @ + 1]
              /\ pc' = pc
         ELSE /\ loc' = [loc EXCEPT ![p].cur = task, ![p].mi = 1]
              /\ pc' = [pc EXCEPT ![p] = "inboxMove"]
  /\ UNCHANGED <<env, lists, nextId, sheet, mails, lock, faults, stats, err,
                 hist, logCalls, did>>

\* TaskService.move(task, inboxId, todayListId), one API call of MoveOps;
\* after the last one, stats.inboxMoves++.
InboxMove(p) ==
  /\ pc[p] = "inboxMove"
  /\ LET l == loc[p]
         op == MoveOps[l.mi]
     IN  /\ IF op = "insert"
            THEN /\ lists' = InsertTask(lists, l.dst, NewTaskFrom(l.cur, nextId))
                 /\ nextId' = nextId + 1
            ELSE /\ lists' = RemoveTask(lists, l.src, l.cur.id)
                 /\ nextId' = nextId
         /\ IF l.mi < Len(MoveOps)
            THEN /\ loc' = [loc EXCEPT ![p].mi = l.mi + 1]
                 /\ UNCHANGED <<pc, stats>>
            ELSE /\ loc' = [loc EXCEPT ![p].ti = @ + 1, ![p].cur = NoTask,
                                       ![p].mi = 1]
                 /\ pc' = [pc EXCEPT ![p] = "inboxLoop"]
                 /\ stats' = [stats EXCEPT ![p].inboxMoves = @ + 1]
  /\ Does(p, {"storage"})
  /\ UNCHANGED <<env, sheet, mails, lock, faults, err, hist, logCalls>>

\* The loop is exhausted: processInboxTasks returns.
InboxEnd(p) ==
  /\ pc[p] = "inboxLoop"
  /\ loc[p].ti > Len(loc[p].tasksToMove)
  /\ pc' = [pc EXCEPT ![p] = "swept"]
  /\ UNCHANGED <<env, lists, nextId, sheet, mails, lock, faults, stats, loc,
                 err, hist, logCalls, did>>

\* A later invocation on the same day is at its call of processInboxTasks,
\* after the sweep of the invocation before it returned.
InboxStart(p) ==
  /\ p > 1
  /\ pc[p] = "idle"
  /\ pc[p - 1] = "swept"
  /\ lock' = p
  /\ pc' = [pc EXCEPT ![p] = "inboxList"]
  /\ stats' = [stats EXCEPT ![p] = NewStats(day)]
  /\ loc' = [loc EXCEPT ![p] = [NewLoc EXCEPT !.startDay = day, !.inboxId = 1,
                                              !.todayListId = 3]]
  /\ hist' = [hist EXCEPT ![p].lists0 = lists]
  /\ UNCHANGED <<env, lists, nextId, sheet, mails, faults, err, logCalls, did>>

NextInbox ==
  \E p \in Procs :
    \/ InboxListAll(p) \/ InboxNext(p) \/ InboxMove(p) \/ InboxEnd(p)
    \/ InboxStart(p)

SpecInbox == InitInbox /\ [][NextInbox]_vars

(* ------- repeated moves of a task with an email link (SpecMoves) ------- *)

\* Calls of TaskService.move in one behaviour, at most.
MaxMoves == 3

MailLink == "https://mail/1"

MoveNotesAlphabet == {EmailSep, MailLink}

\* Title, status and due value of the task handed to move: incomplete or
\* completed, with or without a due value, the title with or without the
\* suffix of an earlier move.
MoveVariants ==
  {[title |-> <<"Answer mail">>, status |-> "needsAction", completed |-> "",
    due |-> <<>>],
   [title |-> <<"Answer mail", FromEmail>>, status |-> "needsAction",
    completed |-> "", due |-> FormatIso(10) \o <<"T00:00:00.000Z">>],
   [title |-> <<"Answer mail">>, status |-> "completed", completed |-> "T",
    due |-> FormatIso(10) \o <<"T00:00:00.000Z">>],
   [title |-> <<"Answer mail">>, status |-> "completed", completed |-> "T",
    due |-> <<>>]}

\* A task created from an email (or not), with any notes over the alphabet, in
\* the first of two lists.
InitMoves ==
  /\ day = 10
  /\ props = DefaultProps
  /\ \E notes \in SeqsUpTo(MoveNotesAlphabet, MaxNotesLen), links \in LinkChoices,
        v \in MoveVariants :
       lists = <<InboxList(<<[InitTask(11, "Answer mail", notes, v.status,
                                       links, v.completed)
                                EXCEPT !.title = v.title, !.due = v.due]>>),
                 DailyList(3, 10, <<>>)>>
  /\ nextId = 50
  /\ sheet = [tab |-> FALSE, rows |-> <<>>]
  /\ mails = <<>>
  /\ lock = 1
  /\ faults = 0
  /\ pc = [p \in Procs |-> IF p = 1 THEN "pick" ELSE "idle"]
  /\ stats = [p \in Procs |-> NewStats(0)]
  /\ loc = [p \in Procs |-> NewLoc]
  /\ err = [p \in Procs |-> <<>>]
  /\ hist = [p \in Procs |->
               IF p = 1 THEN [NewHist EXCEPT !.lists0 = lists] ELSE NewHist]
  /\ logCalls = <<>>
  /\ did = [p \in Procs |-> {}]
  /\ Deployed
  /\ fn = FnIdle

\* A caller hands a task of one list to TaskService.move, as
\* processInboxTasks does, or after TaskService.updateNotes with the rollover
\* counter, as migrateIncompleteTasks does.
PickTask(p) ==
  /\ pc[p] = "pick"
  /\ fn.n < MaxMoves
  /\ \E i \in 1..Len(lists), track \in BOOLEAN :
       \E j \in 1..Len(lists[i].tasks) :
         LET src == lists[i].id
             task == lists[i].tasks[j]
             notes == IF track THEN RolloverNotes(task.notes) ELSE task.notes
         IN  /\ lists' = PatchNotes(lists, src, task.id, notes)
             /\ loc' = [loc EXCEPT ![p].src = src,
                                   ![p].dst = IF src = 1 THEN 3 ELSE 1,
                                   ![p].cur = [task EXCEPT !.notes = notes],
                                   ![p].mi = 1]
  /\ fn' = [fn EXCEPT !.n = @ + 1]
  /\ pc' = [pc EXCEPT ![p] = "moving"]
  /\ UNCHANGED <<day, props, nextId, sheet, mails, lock, faults, stats, err,
                 hist, logCalls, did, triggers, spreadsheets>>

\* TaskService.move: one API call of MoveOps.
MoveCall(p) ==
  /\ pc[p] = "moving"
  /\ LET l == loc[p]
         op == MoveOps[l.mi]
     IN  /\ IF op = "insert"
            THEN /\ lists' = InsertTask(lists, l.dst, NewTaskFrom(l.cur, nextId))
                 /\ nextId' = nextId + 1
            ELSE /\ lists' = RemoveTask(lists, l.src, l.cur.id)
                 /\ nextId' = nextId
         /\ IF l.mi < Len(MoveOps)
            THEN /\ loc' = [loc EXCEPT ![p].mi = l.mi + 1]
                 /\ pc' = pc
            ELSE /\ loc' = [loc EXCEPT ![p] = NewLoc]
                 /\ pc' = [pc EXCEPT ![p] = "pick"]
  /\ UNCHANGED <<env, sheet, mails, lock, faults, stats, err, hist, logCalls, did>>

\* The API call TaskService.move is at throws: the move ends there.
MoveCallThrows(p) ==
  /\ pc[p] = "moving"
  /\ loc' = [loc EXCEPT ![p] = NewLoc]
  /\ pc' = [pc EXCEPT ![p] = "pick"]
  /\ UNCHANGED <<env, lists, nextId, sheet, mails, lock, faults, stats, err,
                 hist, logCalls, did>>

NextMoves == \E p \in Procs : PickTask(p) \/ MoveCall(p) \/ MoveCallThrows(p)

SpecMoves == InitMoves /\ [][NextMoves]_vars

(* ------ an inbox whose name starts with the prefix (SpecPrefixed) ------ *)

\* INBOX_LIST_NAME set to a name that starts with the daily prefix.
PrefixedName == <<"[Daily]", " Inbox">>

Prefixed(pr) == [pr EXCEPT !.INBOX_LIST_NAME = PrefixedName]

\* A prefix that is set, with an inbox name that starts with it.
CustomPrefixed ==
  [AutoMoveOff EXCEPT !.DAILY_LIST_PREFIX = <<"Day">>,
                      !.INBOX_LIST_NAME = <<"Day", " Inbox">>]

\* One stale list, and the inbox with the configured name, holding a task.
ScPrefixed(pr) ==
  <<[id |-> 2, title |-> getDailyListPrefix(pr) \o <<" ">> \o FormatLong(9),
     tasks |-> <<tMilk>>],
    [id |-> 1, title |-> getInboxListName(pr), tasks |-> <<tKeep>>]>>

PrefixedCases ==
  {Case(10, Prefixed(DefaultProps), ScPrefixed(Prefixed(DefaultProps))),
   Case(7, Prefixed(AutoMoveOff), ScPrefixed(Prefixed(AutoMoveOff))),
   Case(10, Prefixed(NoSheet), ScPrefixed(Prefixed(NoSheet))),
   Case(10, CustomPrefixed, ScPrefixed(CustomPrefixed))}

InitPrefixed ==
  /\ \E c \in PrefixedCases : day = c.day /\ props = c.props /\ lists = c.lists
  /\ nextId = 50
  /\ sheet = [tab |-> FALSE, rows |-> <<>>]
  /\ mails = <<>>
  /\ lock = NoOne
  /\ faults = 0
  /\ pc = [p \in Procs |-> "idle"]
  /\ stats = [p \in Procs |-> NewStats(0)]
  /\ loc = [p \in Procs |-> NewLoc]
  /\ err = [p \in Procs |-> <<>>]
  /\ hist = [p \in Procs |-> NewHist]
  /\ logCalls = <<>>
  /\ did = [p \in Procs |-> {}]
  /\ Deployed
  /\ fn = FnIdle

SpecPrefixed == InitPrefixed /\ [][Next]_vars

(* ------- the rollover with a list for today, without tracking, ------- *)
(* ------- and on a second run of the day (SpecRollover)         ------- *)

\* The cases of InitCases for the rollover: a list for today under the
\* default properties and with auto-move off, a long list with tracking off,
\* and the end-to-end lists without a log sheet.
RolloverCases ==
  {Case(10, DefaultProps, ScToday(10)),
   Case(10, TrackOff, ScPages),
   Case(7, AutoMoveOff, ScToday(7)),
   Case(7, NoSheet, ScEndToEnd)}

InitRollover ==
  /\ \E c \in RolloverCases : day = c.day /\ props = c.props /\ lists = c.lists
  /\ nextId = 50
  /\ sheet = [tab |-> FALSE, rows |-> <<>>]
  /\ mails = <<>>
  /\ lock = NoOne
  /\ faults = 0
  /\ pc = [p \in Procs |-> "idle"]
  /\ stats = [p \in Procs |-> NewStats(0)]
  /\ loc = [p \in Procs |-> NewLoc]
  /\ err = [p \in Procs |-> <<>>]
  /\ hist = [p \in Procs |-> NewHist]
  /\ logCalls = <<>>
  /\ did = [p \in Procs |-> {}]
  /\ Deployed
  /\ fn = FnIdle

SpecRollover == InitRollover /\ [][Next]_vars

(* ------------- the day of the weekly digest (SpecDigestDay) ------------ *)

\* parseInt of null, or of a string that does not start with a digit.
NaN == 0 - 1

\* parseInt(value, 10) of a script property: NaN when it is not set.
ParseIntProp(value) == IF value = <<>> THEN NaN ELSE ParseInt(value)

\* n || fallback on a number: 0 and NaN are falsy.
NumOrElse(n, fallback) == IF n = 0 \/ n = NaN THEN fallback ELSE n

\* config.js declares getWeeklyDigestDay twice; this is the first
\* declaration, the arrow function
\*   parseInt(getProperties().getProperty('WEEKLY_DIGEST_DAY'), 10) || 1
getWeeklyDigestDayArrow(pr) == NumOrElse(ParseIntProp(pr.WEEKLY_DIGEST_DAY), 1)

\* The declarations of getWeeklyDigestDay: which of them is bound when
\* dailyRunner runs depends on how the script files are loaded.
Declarations == {"arrow", "function"}

\* getWeeklyDigestDay() under the declaration in force.
WeeklyDigestDay(decl, pr) ==
  IF decl = "arrow" THEN getWeeklyDigestDayArrow(pr) ELSE getWeeklyDigestDay(pr)

\* The values of WEEKLY_DIGEST_DAY: not set, and "0" to "6".
DigestDayValues == {<<>>} \cup {<<DigitToks[i]>> : i \in 1..7}

\* One week of July 2025, Sunday the 6th to Saturday the 12th.
WeekDays == 6..12

\* dailyRunner has logged the run and is at
\*   if (startTime.getDay() == getWeeklyDigestDay())
InitDigestDay ==
  /\ day \in WeekDays
  /\ \E v \in DigestDayValues :
       props = [AutoMoveOff EXCEPT !.WEEKLY_DIGEST_DAY = v]
  /\ lists = <<InboxList(<<>>), DailyList(3, day, <<>>)>>
  /\ nextId = 50
  /\ sheet = [tab |-> TRUE, rows |-> <<HEADER_ROW, RowOf(NewStats(day))>>]
  /\ mails = <<>>
  /\ lock = 1
  /\ faults = 0
  /\ pc = [p \in Procs |-> IF p = 1 THEN "logged" ELSE "idle"]
  /\ stats = [p \in Procs |-> IF p = 1 THEN NewStats(day) ELSE NewStats(0)]
  /\ loc = [p \in Procs |->
              IF p = 1
              THEN [NewLoc EXCEPT !.startDay = day, !.inboxId = 1, !.todayListId = 3]
              ELSE NewLoc]
  /\ err = [p \in Procs |-> <<>>]
  /\ hist = [p \in Procs |->
               IF p = 1 THEN [NewHist EXCEPT !.lists0 = lists] ELSE NewHist]
  /\ logCalls = <<[by |-> 1, stat |-> NewStats(day)]>>
  /\ did = [p \in Procs |-> {}]
  /\ Deployed
  /\ \E decl \in Declarations : fn = [decl |-> decl]

\* dailyRunner: if (startTime.getDay() == getWeeklyDigestDay())
DigestDayCheck(p) ==
  /\ pc[p] = "logged"
  /\ pc' = [pc EXCEPT ![p] =
              IF GetDay(loc[p].startDay) = WeeklyDigestDay(fn.decl, props)
              THEN "digest" ELSE "finally"]
  /\ UNCHANGED <<env, lists, nextId, sheet, mails, lock, faults, stats, loc,
                 err, hist, logCalls, did>>

NextDigestDay ==
  \E p \in Procs :
    \/ DigestDayCheck(p) \/ Digest(p)
    \/ CatchLog(p) \/ CatchMail(p) \/ Finally(p)

SpecDigestDay == InitDigestDay /\ [][NextDigestDay]_vars

(* ----------------------- setup() (SpecSetup) --------------------------- *)

\* Triggers of the project before the first call of setup, at most.
MaxTriggers == 2

\* The ids SpreadsheetApp.create gives to new spreadsheets, in order.
SheetIdOf == <<"sheet-1", "sheet-2", "sheet-3", "sheet-4", "sheet-5">>

\* The locals of a call of setup.
SetupLoc == [sheetId |-> Null, isNewSheet |-> FALSE, existingTriggers |-> <<>>, ti |-> 1]

\* History of a call of setup: the stored id, the spreadsheets and the
\* triggers when it started, and whether openById returned.
SetupHist ==
  [stored0 |-> Null, sheets0 |-> {}, triggers0 |-> <<>>, opened |-> FALSE]

\* The handlers of the triggers a project may hold before setup.
Handlers == {"dailyRunner", "sendReminders"}

\* The project before the first call of setup(): with or without a stored
\* sheet id, the spreadsheet there or deleted, and any triggers.
InitSetup ==
  /\ day = 10
  /\ \E id \in {Null, "sheet-1"} : props = [DefaultProps EXCEPT !.LOG_SHEET_ID = id]
  /\ spreadsheets \in {{}, {"sheet-1"}}
  /\ \E hs \in SeqsUpTo(Handlers, MaxTriggers) :
       triggers = [i \in 1..Len(hs) |-> Trigger(i, hs[i])]
  /\ lists = <<>>
  /\ nextId = 2
  /\ sheet = [tab |-> FALSE, rows |-> <<>>]
  /\ mails = <<>>
  /\ lock = NoOne
  /\ faults = 0
  /\ pc = [p \in Procs |-> "idle"]
  /\ stats = [p \in Procs |-> NewStats(0)]
  /\ loc = [p \in Procs |-> SetupLoc]
  /\ err = [p \in Procs |-> <<>>]
  /\ hist = [p \in Procs |-> SetupHist]
  /\ logCalls = <<>>
  /\ did = [p \in Procs |-> {}]
  /\ fn = FnIdle

\* The user runs setup(), after the call before it has ended:
\*   let sheetId = getLogSheetId(); let isNewSheet = false; if (sheetId)
SetupBegin(p) ==
  /\ pc[p] = "idle"
  /\ p > 1 => pc[p - 1] \in {"returned", "thrown"}
  /\ loc' = [loc EXCEPT ![p].sheetId = getLogSheetId(props)]
  /\ hist' = [hist EXCEPT ![p] = [stored0 |-> getLogSheetId(props),
                                  sheets0 |-> spreadsheets,
                                  triggers0 |-> triggers, opened |-> FALSE]]
  /\ pc' = [pc EXCEPT ![p] = IF getLogSheetId(props) # Null THEN "open" ELSE "create"]
  /\ UNCHANGED <<day, props, fn, triggers, spreadsheets, lists, nextId, sheet,
                 mails, lock, faults, stats, err, logCalls, did>>

\* try { SpreadsheetApp.openById(sheetId) }: the sheet is accessible.
SetupOpenById(p) ==
  /\ pc[p] = "open"
  /\ loc[p].sheetId \in spreadsheets
  /\ hist' = [hist EXCEPT ![p].opened = TRUE]
  /\ pc' = [pc EXCEPT ![p] = "triggers"]
  /\ UNCHANGED <<day, props, fn, triggers, spreadsheets, lists, nextId, sheet,
                 mails, lock, faults, stats, loc, err, logCalls, did>>

\* catch (e) { sheetId = null }: openById throws, because the spreadsheet is
\* gone or because the service fails.
SetupOpenThrows(p) ==
  /\ pc[p] = "open"
  /\ \/ /\ loc[p].sheetId \notin spreadsheets
        /\ faults' = faults
     \/ /\ loc[p].sheetId \in spreadsheets
        /\ faults < MaxFaults
        /\ faults' = faults + 1
  /\ loc' = [loc EXCEPT ![p].sheetId = Null]
  /\ pc' = [pc EXCEPT ![p] = "create"]
  /\ UNCHANGED <<day, props, fn, triggers, spreadsheets, lists, nextId, sheet,
                 mails, lock, stats, err, hist, logCalls, did>>

\* if (!sheetId): SpreadsheetApp.create, setProperty('LOG_SHEET_ID', sheetId)
SetupCreateSheet(p) ==
  /\ pc[p] = "create"
  /\ nextId <= Len(SheetIdOf)
  /\ spreadsheets' = spreadsheets \cup {SheetIdOf[nextId]}
  /\ props' = [props EXCEPT !.LOG_SHEET_ID = SheetIdOf[nextId]]
  /\ nextId' = nextId + 1
  /\ loc' = [loc EXCEPT ![p].sheetId = SheetIdOf[nextId], ![p].isNewSheet = TRUE]
  /\ pc' = [pc EXCEPT ![p] = "triggers"]
  /\ UNCHANGED <<day, fn, triggers, lists, sheet, mails, lock, faults, stats,
                 err, hist, logCalls, did>>

\* const existingTriggers = ScriptApp.getProjectTriggers()
SetupGetTriggers(p) ==
  /\ pc[p] = "triggers"
  /\ loc' = [loc EXCEPT ![p].existingTriggers = triggers, ![p].ti = 1]
  /\ pc' = [pc EXCEPT ![p] = "cleanup"]
  /\ UNCHANGED <<day, props, fn, triggers, spreadsheets, lists, nextId, sheet,
                 mails, lock, faults, stats, err, hist, logCalls, did>>

\* A mutant of DeletesTrigger: no trigger is removed.
DeletesTriggerNever(trigger) == FALSE

\* if (trigger.getHandlerFunction() === 'dailyRunner')
DeletesTrigger(trigger) == trigger.handler = "dailyRunner"

\* One round of the loop over existingTriggers: ScriptApp.deleteTrigger
\* for a trigger of dailyRunner.
SetupDeleteTrigger(p) ==
  /\ pc[p] = "cleanup"
  /\ loc[p].ti <= Len(loc[p].existingTriggers)
  /\ LET trigger == loc[p].existingTriggers[loc[p].ti]
     IN  triggers' = IF DeletesTrigger(trigger)
                     THEN SelectSeq(triggers, LAMBDA t : t.id # trigger.id)
                     ELSE triggers
  /\ loc' = [loc EXCEPT ![p].ti = @ + 1]
  /\ UNCHANGED <<day, props, fn, spreadsheets, lists, nextId, sheet, mails,
                 lock, faults, pc, stats, err, hist, logCalls, did>>

\* ScriptApp.newTrigger('dailyRunner').timeBased()...create(); setup returns.
SetupNewTrigger(p) ==
  /\ pc[p] = "cleanup"
  /\ loc[p].ti > Len(loc[p].existingTriggers)
  /\ triggers' = Append(triggers, Trigger(100 + p, "dailyRunner"))
  /\ pc' = [pc EXCEPT ![p] = "returned"]
  /\ UNCHANGED <<day, props, fn, spreadsheets, lists, nextId, sheet, mails,
                 lock, faults, stats, loc, err, hist, logCalls, did>>

\* SpreadsheetApp.create, ScriptApp.getProjectTriggers, deleteTrigger or
\* newTrigger throws: the exception leaves setup.
SetupAborts(p) ==
  /\ \/ pc[p] \in {"create", "triggers"}
     \/ /\ pc[p] = "cleanup"
        /\ \/ loc[p].ti > Len(loc[p].existingTriggers)
           \/ /\ loc[p].ti <= Len(loc[p].existingTriggers)
              /\ DeletesTrigger(loc[p].existingTriggers[loc[p].ti])
  /\ faults < MaxFaults
  /\ faults' = faults + 1
  /\ pc' = [pc EXCEPT ![p] = "thrown"]
  /\ UNCHANGED <<day, props, fn, triggers, spreadsheets, lists, nextId, sheet,
                 mails, lock, stats, loc, err, hist, logCalls, did>>

NextSetup ==
  \E p \in Procs :
    \/ SetupBegin(p) \/ SetupOpenById(p) \/ SetupOpenThrows(p)
    \/ SetupCreateSheet(p) \/ SetupGetTriggers(p)
    \/ SetupDeleteTrigger(p) \/ SetupNewTrigger(p) \/ SetupAborts(p)

SpecSetup == InitSetup /\ [][NextSetup]_vars

(* ------------------------------- claims ------------------------------- *)

\* C7: migrating a task N times with tracking, from notes without a rollover
\* fragment, gives notes with exactly one fragment, "Rollover Count: N", after
\* the unchanged original text; from notes with one fragment
\* "Rollover Count: k", one migration gives exactly one fragment
\* "Rollover Count: k+1" with the text before and after it unchanged.
C7_RolloverCounter ==
  LET m0 == MatchPositions(fn.notes0)
  IN
  /\ (fn.n >= 1 /\ m0 = {}) =>
       /\ Cardinality(MatchPositions(fn.notes)) = 1
       /\ \E block \in {<<>>, <<EmailSep, "https://mail/1">>} :
            fn.notes = fn.notes0 \o (IF fn.notes0 = <<>> THEN <<>> ELSE <<Sep>>)
                         \o <<RC>> \o ToDigits(fn.n) \o block
  /\ (fn.n = 1 /\ Cardinality(m0) = 1) =>
       LET i == CHOOSE j \in m0 : TRUE
           e == DigitRunEnd(fn.notes0, i + 1)
           k == ParseInt(SubSeq(fn.notes0, i + 1, e))
       IN  /\ Cardinality(MatchPositions(fn.notes)) = 1
           /\ \E block \in {<<>>, <<EmailSep, "https://mail/1">>} :
                fn.notes = SubSeq(fn.notes0, 1, i - 1) \o <<RC>> \o ToDigits(k + 1)
                             \o SubSeq(fn.notes0, e + 1, Len(fn.notes0)) \o block

\* C7 witness: a task with text notes and an email link has been migrated
\* three times.
C7_Witness ==
  /\ fn.n = 3
  /\ fn.notes0 = <<"text">>
  /\ fn.notes = <<"text", Sep, RC, "3", EmailSep, "https://mail/1">>


(* Helpers of the claims. *)

Running(p) == pc[p] \notin {"idle", "done"}

ListIds(ls) == {ls[i].id : i \in 1..Len(ls)}

ListById(ls, id) == ls[ListIndex(ls, id)]

\* Whether a task descending from the task `orig` is in the list.
HasCopy(ls, listId, orig) ==
  LET ts == TasksOf(ls, listId)
  IN  \E i \in 1..Len(ts) : ts[i].orig = orig

HasTask(ls, listId, taskId) ==
  LET ts == TasksOf(ls, listId)
  IN  \E i \in 1..Len(ts) : ts[i].id = taskId

TodayCount(ls, d) ==
  LET todayName == TodayListFullName(props, d)
  IN  Cardinality({i \in 1..Len(ls) : ls[i].title = todayName})

LogCallsBy(p) == {i \in 1..Len(logCalls) : logCalls[i].by = p}

MailsBy(p) == {i \in 1..Len(mails) : mails[i].by = p}

\* C1: an invocation that acquired the lock never ends with the lock held,
\* and the lock is held only by an invocation that is still running.
C1_LockReleased ==
  \A p \in Procs :
    /\ pc[p] = "done" => lock # p
    /\ lock = p => Running(p)

\* C1 witness: an invocation has ended after an exception left its catch
\* block (the failure mail or the log write in it threw).
C1_Witness ==
  \E p \in Procs :
    /\ pc[p] = "done"
    /\ hist[p].escaped
    /\ <<"release", TRUE>> \in did[p]
    /\ lock = NoOne

\* C2: at most one invocation is between lock acquisition and release, and
\* every collaborator call (Tasks API, log, sheet, mail) is made by the
\* invocation that holds the lock at the time of the call.
C2_Serialized ==
  /\ Cardinality({p \in Procs : Running(p)}) <= 1
  /\ \A p \in Procs : Running(p) => lock = p
  /\ \A p \in Procs : \A d \in did[p] : d[2]

\* C2 witness: one invocation is in the middle of a move, holding the lock,
\* and another one has been started meanwhile and found the lock taken.
C2_Witness ==
  \E p, q \in Procs :
    /\ p # q
    /\ lock = p
    /\ pc[p] = "move"
    /\ loc[p].mi = 2
    /\ hist[q].aborted

\* C3: an invocation whose tryLock returned false has ended at once, having
\* made no Tasks API, sheet, log, mail or digest call and no releaseLock.
C3_DeferralIsNoOp ==
  \A p \in Procs :
    hist[p].aborted =>
      /\ pc[p] = "done"
      /\ did[p] = {}
      /\ LogCallsBy(p) = {}
      /\ MailsBy(p) = {}
      /\ stats[p] = NewStats(0)

\* C3 witness: an invocation was deferred while another one, which has
\* changed the lists and logged its run, still holds the lock.
C3_Witness ==
  \E p, q \in Procs :
    /\ hist[q].aborted
    /\ lock = p
    /\ lists # hist[p].lists0
    /\ LogCallsBy(p) # {}

\* Whether the invocation has taken the catch block of dailyRunner and left it.
HandlerLeft(p) == err[p] # <<>> /\ pc[p] \in {"finally", "done"}

\* C4: on the path of an exception raised after the lock acquisition, the
\* notes of the run are the fatal marker, the RunStat with the counters as they
\* were at the exception is passed to the log sink, and the failure
\* notification email is sent (here: its sending is at least attempted).
C4_FatalPath ==
  \A p \in Procs :
    HandlerLeft(p) =>
      /\ stats[p].notes = FatalNote(err[p])
      /\ \E i \in LogCallsBy(p) :
           logCalls[i].stat =
             [hist[p].statsAtThrow EXCEPT !.notes = FatalNote(err[p])]
      /\ \E i \in MailsBy(p) : mails[i].subject = FailedSubject

\* C5: when ListService.deleteList is about to be called on a stale list,
\* every task that was incomplete in that list when the run started has a copy
\* in the inbox.
C5_MigratedBeforeDelete ==
  \A p \in Procs :
    pc[p] = "delete" =>
      LET before == TasksOf(hist[p].lists0, loc[p].src)
      IN  \A i \in 1..Len(before) :
            IsIncomplete(before[i]) =>
              HasCopy(lists, loc[p].inboxId, before[i].orig)

\* Whether the invocation is inside TaskService.move for a task of a stale
\* list, or in the handler of an exception thrown by one of its API calls.
InMove(p) ==
  /\ lock = p
  /\ loc[p].cur # NoTask
  /\ pc[p] = "move" \/ hist[p].thrownAt = "move"

\* C6: at every intermediate state of a move, and after a failure of any of
\* its calls, the task is in the source list or has a copy in the destination
\* list; before the insert it is in the source, after it in both.
C6_CreateBeforeDelete ==
  \A p \in Procs :
    InMove(p) =>
      LET inSrc == HasTask(lists, loc[p].src, loc[p].cur.id)
          inDst == HasCopy(lists, loc[p].dst, loc[p].cur.orig)
      IN  /\ inSrc \/ inDst
          /\ loc[p].mi = 1 => inSrc
          /\ loc[p].mi = 2 => inSrc /\ inDst

\* C6 witness: Tasks.Tasks.remove has thrown after the insert: the task is in
\* the stale list and its copy is in the inbox.
C6_Witness ==
  \E p \in Procs :
    /\ InMove(p)
    /\ pc[p] = "catchLog"
    /\ hist[p].thrownOp = "remove"
    /\ hist[p].lists0 \in {ScEndToEnd, ScLong}
    /\ HasTask(lists, loc[p].src, loc[p].cur.id)
    /\ HasCopy(lists, loc[p].dst, loc[p].cur.orig)

\* C8: if the budget is found exceeded at the check before the (k+1)-th stale
\* list, the first k stale lists, and no other list, are deleted, listDeleted
\* is k, every other stale list is as it was when the run started, and the
\* note of the run is the pause note for as long as no exception is thrown.
C8_PauseBetweenLists ==
  \A p \in Procs :
    (lock = p /\ hist[p].pausedAt > 0) =>
      LET k == hist[p].pausedAt - 1
          stale == loc[p].staleLists
      IN  /\ stats[p].listDeleted = k
          /\ \A i \in 1..Len(stale) :
               IF i <= k
               THEN ~HasList(lists, stale[i].id)
               ELSE /\ HasList(lists, stale[i].id)
                    /\ ListById(lists, stale[i].id) =
                         ListById(hist[p].lists0, stale[i].id)
          /\ ListIds(hist[p].lists0) \ ListIds(lists) =
               {stale[i].id : i \in 1..k}
          /\ err[p] = <<>> => stats[p].notes = PauseNote

\* C8 witness: of three stale lists two have been migrated and deleted, the
\* budget was found exceeded before the third, and the run has logged the
\* pause note.
C8_Witness ==
  \E p \in Procs :
    /\ lock = p
    /\ pc[p] = "finally"
    /\ err[p] = <<>>
    /\ hist[p].pausedAt = 3
    /\ Len(loc[p].staleLists) = 3
    /\ stats[p].inboxAdds = 1
    /\ \E i \in LogCallsBy(p) : logCalls[i].stat.notes = PauseNote

\* The positions of an invocation inside rolloverProcess.
RolloverPcs ==
  {"setup", "getInbox", "listAll", "sweep", "patch", "move", "completed",
   "delete", "ensure"}

\* Whether rolloverProcess has returned in the invocation.
RolloverReturned(p) ==
  /\ ~hist[p].aborted
  /\ pc[p] \notin RolloverPcs \cup {"idle"}
  /\ hist[p].thrownAt \notin RolloverPcs

\* C9: a run whose rolloverProcess has returned has created no list if a list
\* with today's title existed when it started, and exactly one otherwise;
\* started from at most one such list it leaves exactly one, also after later
\* runs on the same day; listCreated is the number of lists the run created.
C9_OneTodayList ==
  \A p \in Procs :
    /\ RolloverReturned(p) =>
         LET before == TodayCount(hist[p].lists0, day)
         IN  /\ stats[p].listCreated = IF before >= 1 THEN 0 ELSE 1
             /\ before <= 1 => TodayCount(lists, day) = 1
    /\ lock = p =>
         /\ Cardinality(ListIds(lists) \ ListIds(hist[p].lists0)) =
              stats[p].listCreated
         /\ stats[p].listCreated \in {0, 1}

\* C9 witness: a run that found no list for today and created one, and a
\* later run on the same day that found it and created none.
C9_Witness ==
  \E p, q \in Procs :
    /\ pc[p] = "done" /\ RolloverReturned(p) /\ stats[p].listCreated = 1
    /\ pc[q] = "done" /\ RolloverReturned(q) /\ stats[q].listCreated = 0
    /\ TodayCount(hist[q].lists0, day) = 1
    /\ TodayCount(lists, day) = 1

\* The end-to-end scenario: default configuration, the lists of ScEndToEnd,
\* no collaborator failure and the budget not exceeded.
EndToEndRun(p) ==
  /\ pc[p] = "done"
  /\ ~hist[p].aborted
  /\ props = DefaultProps
  /\ hist[p].lists0 = ScEndToEnd
  /\ faults = 0
  /\ hist[p].pausedAt = 0

\* C10: the end-to-end run leaves the incomplete task in the inbox with notes
\* "Rollover Count: 1", the stale list deleted, one new list with today's
\* title, and a RunStat, also as handed to the log sink, with inboxAdds 1,
\* listDeleted 1, listCreated 1 and the completed task with its timestamp.
C10_EndToEnd ==
  \A p \in Procs :
    EndToEndRun(p) =>
      LET inbox == TasksOf(lists, 1)
          counted(st) ==
            /\ st.inboxAdds = 1
            /\ st.listDeleted = 1
            /\ st.listCreated = 1
            /\ st.completedTasks =
                 <<[taskName |-> <<"Call Bob">>, completed_timestamp |-> "T"]>>
      IN  /\ Len(inbox) = 1
          /\ inbox[1].title = <<"Buy milk">>
          /\ inbox[1].notes = <<RC, "1">>
          /\ inbox[1].status = "needsAction"
          /\ inbox[1].orig = tMilk.id
          /\ ~HasList(lists, 2)
          /\ Len(lists) = 2
          /\ lists[2].title = <<"[Daily]", " ">> \o FormatLong(day)
          /\ lists[2].tasks = <<>>
          /\ counted(stats[p])
          /\ LogCallsBy(p) # {}
          /\ \A i \in LogCallsBy(p) : counted(logCalls[i].stat)

\* C10 witness: the end-to-end run has ended.
C10_Witness ==
  \E p \in Procs :
    /\ EndToEndRun(p)
    /\ stats[p].inboxAdds = 1
    /\ <<"release", TRUE>> \in did[p]

\* Whether the invocation is in processInboxTasks, or has returned from it.
InInboxSweep(p) == pc[p] \in {"inboxList", "inboxLoop", "inboxMove", "swept"}

\* C11: during and after the inbox sweep every task with a recurrence rule
\* that was in the inbox is still in the inbox, unchanged, and today's list
\* holds no copy of it, whatever its due date.
C11_RecurringStay ==
  \A p \in Procs :
    InInboxSweep(p) =>
      LET before == TasksOf(hist[p].lists0, loc[p].inboxId)
          inbox == TasksOf(lists, loc[p].inboxId)
      IN  \A i \in 1..Len(before) :
            before[i].recurrence # "" =>
              /\ \E j \in 1..Len(inbox) : inbox[j] = before[i]
              /\ ~HasCopy(lists, loc[p].todayListId, before[i].orig)

\* C11 witness: a sweep has ended that moved a task due today and found a
\* recurring task due today in the inbox.
C11_Witness ==
  \E p \in Procs :
    /\ pc[p] = "swept"
    /\ stats[p].inboxMoves >= 1
    /\ HasTask(hist[p].lists0, loc[p].inboxId, tWeekly(day).id)
    /\ HasTask(lists, loc[p].inboxId, tWeekly(day).id)

\* The tasks of a list that the inbox sweep has to move on day d.
Movable(tasks, d) ==
  {i \in 1..Len(tasks) :
     /\ tasks[i].due # <<>>
     /\ tasks[i].recurrence = ""
     /\ DueDate(tasks[i].due) = FormatIso(d)}

\* Whether the invocation has called processInboxTasks and left it.
PastInboxSweep(p) ==
  /\ getAutoMoveDueTasks(props)
  /\ RolloverReturned(p)
  /\ pc[p] # "inbox"

\* C12: with auto-move enabled the inbox sweep raises no error, moves every
\* task of the inbox that is due today and has no recurrence rule, and
\* inboxMoves is the number of these tasks.
C12_InboxSweep ==
  \A p \in Procs :
    PastInboxSweep(p) =>
      LET inbox0 == TasksOf(hist[p].lists0, GetListByTitle(hist[p].lists0, <<"Inbox">>))
          inbox == TasksOf(lists, GetListByTitle(lists, <<"Inbox">>))
      IN  /\ hist[p].thrownAt # "inbox"
          /\ Movable(inbox, day) = {}
          /\ stats[p].inboxMoves = Cardinality(Movable(inbox0, day))

\* The "Original Email:" blocks for the link in the notes.
EmailBlocks(notes, link) ==
  Cardinality({i \in 1..Len(notes) - 1 : notes[i] = EmailSep /\ notes[i + 1] = link})

\* The " [from email]" suffixes in the title.
EmailSuffixes(title) == Cardinality({i \in 1..Len(title) : title[i] = FromEmail})

AllTasks(ls) == UNION {SeqToSet(ls[i].tasks) : i \in 1..Len(ls)}

\* C13: whatever sequence of moves the task and its successors go through,
\* completed or interrupted, with or without the rollover counter, no task has
\* more than one "Original Email:" block or " [from email]" suffix beyond
\* those of the original task, none is added to notes that hold the link, and
\* block and suffix are added together.
C13_OneEmailBlock ==
  LET t0 == hist[1].lists0[1].tasks[1]
      b0 == EmailBlocks(t0.notes, MailLink)
      s0 == EmailSuffixes(t0.title)
  IN  \A t \in AllTasks(lists) :
        LET b == EmailBlocks(t.notes, MailLink)
            sfx == EmailSuffixes(t.title)
        IN  /\ b \in {b0, b0 + 1}
            /\ sfx \in {s0, s0 + 1}
            /\ b - b0 = sfx - s0
            /\ (Includes(t0.notes, MailLink) \/ t0.links = <<>>) => b = b0

\* C13 witness: a task with an email link and without the block was moved;
\* its successor, with one block and one suffix, was moved again.
C13_Witness ==
  /\ fn.n >= 2
  /\ pc[1] = "pick"
  /\ hist[1].lists0[1].tasks[1].links # <<>>
  /\ hist[1].lists0[1].tasks[1].notes = <<>>
  /\ hist[1].lists0[1].tasks[1].title = <<"Answer mail">>
  /\ \E t \in SeqToSet(TasksOf(lists, 1)) :
       /\ t.id > 50
       /\ EmailBlocks(t.notes, MailLink) = 1
       /\ EmailSuffixes(t.title) = 1

\* Whether the run of the invocation found no inbox list.
NoInboxRun(p) == hist[p].thrownOp = "getListByTitle"

\* The parts of C14 on the storage, the record and the lock.
NoInboxAbort(p) ==
  /\ lock = p => lists = hist[p].lists0
  /\ stats[p].notes = <<>> \/ stats[p].notes = FatalNote(InboxNotFound(props))
  /\ HandlerLeft(p) =>
       \E i \in LogCallsBy(p) :
         logCalls[i].stat =
           [NewStats(hist[p].statsAtThrow.timestamp)
              EXCEPT !.notes = FatalNote(InboxNotFound(props))]
  /\ pc[p] = "done" => lock # p

\* C14: a run that finds no inbox list changes no list and no task, passes a
\* run record whose note names the missing inbox to the log sink, sends (here:
\* at least attempts) the failure notification, and releases the lock.
C14_NoInboxFatal ==
  \A p \in Procs :
    NoInboxRun(p) =>
      /\ NoInboxAbort(p)
      /\ HandlerLeft(p) => \E i \in MailsBy(p) : mails[i].subject = FailedSubject

\* Whether an exception left LoggingSheetUtil.logRun in the catch block of
\* dailyRunner, and so left dailyRunner.
LogRunEscaped(p) ==
  /\ hist[p].escaped
  /\ ~\E i \in MailsBy(p) : mails[i].subject = FailedSubject

\* C15: a failing write to the log sink stays inside logRun, whether or not
\* the fallback mail can be delivered: no run takes the catch block of
\* dailyRunner because of logRun, and no exception of logRun leaves dailyRunner.
C15_LogFailureContained ==
  \A p \in Procs :
    /\ hist[p].thrownOp # "logRun"
    /\ ~LogRunEscaped(p)

\* Whether the invocation ended a run that was paused by the budget check and
\* in which no collaborator failed afterwards (the Tasks API at the creation
\* of today's list, the spreadsheet and the mail service at the log and the
\* digest).
PausedRunEnded(p) ==
  /\ hist[p].pausedAt > 0
  /\ pc[p] = "done"
  /\ hist[p].thrownOp \notin {"ensure", "logRun", "sendWeeklyDigest"}

\* C16: a paused run, paused before the first stale list included, ends
\* without the fatal marker and without a failure notification, with the pause
\* note in the record passed to the log sink and with a list for today.
C16_PauseIsNotAnError ==
  \A p \in Procs :
    PausedRunEnded(p) =>
      /\ err[p] = <<>>
      /\ stats[p].notes = PauseNote
      /\ \E i \in LogCallsBy(p) : logCalls[i].stat.notes = PauseNote
      /\ ~\E i \in MailsBy(p) : mails[i].subject = FailedSubject
      /\ TodayCount(lists, day) >= 1

\* The number after the first "Rollover Count: " of the notes, 0 without one.
RolloverCount(notes) ==
  IF MatchPositions(notes) = {} THEN 0
  ELSE LET i == Min(MatchPositions(notes))
       IN  ParseInt(SubSeq(notes, i + 1, DigitRunEnd(notes, i + 1)))

\* The task as it was before the first invocation.
OriginalOf(t) ==
  CHOOSE t0 \in AllTasks(hist[1].lists0) : t0.id = t.orig

\* C17: with the counter tracked, whatever attempts of a migration failed
\* before, after the patch or after the insert, every copy of a task that a
\* migration put into the inbox has a rollover count exactly 1 higher than
\* the task had before the first attempt.
C17_RepeatAddsOne ==
  getTrackRolloverCount(props) =>
    \A t \in SeqToSet(TasksOf(lists, 1)) :
      t.id >= 50 =>
        RolloverCount(t.notes) = RolloverCount(OriginalOf(t).notes) + 1

\* Whether the invocation before p ended by an exception thrown between the
\* return of migrateIncompleteTasks and the deletion of the stale list, and p
\* is in the loop body of rolloverProcess for its first stale list, which is
\* that list.
RetriesCrashedList(p) ==
  /\ p > 1
  /\ hist[p - 1].thrownAt \in {"completed", "delete"}
  /\ pc[p - 1] = "done"
  /\ lock = p
  /\ loc[p].si = 1
  /\ pc[p] \in {"patch", "move", "completed", "delete"}

\* C18: the run after a crash between the migration of the tasks of a stale
\* list and its deletion finds the list stale again and has nothing to
\* migrate from it: no task is patched or inserted and inboxAdds stays 0.
C18_RetryAfterCrash ==
  \A p \in Procs :
    RetriesCrashedList(p) =>
      /\ loc[p].tasksToMove = <<>>
      /\ stats[p].inboxAdds = 0
      /\ pc[p] \in {"completed", "delete"}

\* The tasks of the lists with the given title that did not exist when the
\* invocation started.
CreatedBy(p, title) ==
  LET ids0 == {t0.id : t0 \in AllTasks(hist[p].lists0)}
  IN  {t \in AllTasks(SelectSeq(lists, LAMBDA l : l.title = title)) :
         t.id \notin ids0}

\* C19: in every record an invocation passes to the log sink, also on the
\* path of an exception, inboxAdds is the number of tasks the run created in
\* the inbox and inboxMoves the number it created in today's list.
C19_StatsAccurate ==
  \A p \in Procs :
    lock = p =>
      \A i \in LogCallsBy(p) :
        /\ logCalls[i].stat.inboxAdds =
             Cardinality(CreatedBy(p, getInboxListName(props)))
        /\ logCalls[i].stat.inboxMoves =
             Cardinality(CreatedBy(p, TodayListFullName(props, day)))

\* C20: while an invocation runs, listCreated is 0 or 1 and is the number of
\* lists the run created, listDeleted is the number of lists the run deleted,
\* is at most the number of stale lists the run found, and after a pause is
\* the number of stale lists before the one the budget check stopped at.
C20_ListCounters ==
  \A p \in Procs :
    lock = p =>
      LET before == ListIds(hist[p].lists0)
          now == ListIds(lists)
      IN  /\ stats[p].listCreated \in {0, 1}
          /\ stats[p].listCreated = Cardinality(now \ before)
          /\ stats[p].listDeleted = Cardinality(before \ now)
          /\ stats[p].listDeleted <= Len(loc[p].staleLists)
          /\ hist[p].pausedAt > 0 => stats[p].listDeleted = hist[p].pausedAt - 1

\* C20 witness: a run found three stale lists and today's list, deleted the
\* first stale list, was paused at the second and is about to release the lock.
C20_Witness ==
  \E p \in Procs :
    /\ lock = p
    /\ pc[p] = "finally"
    /\ hist[p].pausedAt = 2
    /\ Len(loc[p].staleLists) = 3
    /\ stats[p].listDeleted = 1
    /\ stats[p].listCreated = 0
    /\ Cardinality(ListIds(hist[p].lists0) \ ListIds(lists)) = 1

\* Whether old is what is left of the sequence now after insertions at its top.
IsSuffix(old, now) ==
  /\ Len(old) <= Len(now)
  /\ SubSeq(now, Len(now) - Len(old) + 1, Len(now)) = old

\* Whether the invocation is past ListService.listAll() in rolloverProcess.
Classified(p) ==
  /\ lock = p
  /\ pc[p] \in {"sweep", "patch", "move", "completed", "delete", "ensure"}

\* C21: the stale lists of a run are the lists whose title starts with the
\* daily prefix and is not today's title, and today's list has today's title;
\* while the run holds the lock, every list that was there at its start and
\* is not stale is still there with its title, with its tasks unchanged, or,
\* for the inbox, with the migrated tasks on top of the unchanged ones.
C21_Partition ==
  \A p \in Procs :
    LET ls0 == hist[p].lists0
        prefix == getDailyListPrefix(props)
        todayName == TodayListFullName(props, day)
        IsStale(l) == StartsWith(l.title, prefix) /\ l.title # todayName
    IN  /\ Classified(p) =>
             /\ {l.id : l \in SeqToSet(loc[p].staleLists)}
                  = {l.id : l \in {x \in SeqToSet(ls0) : IsStale(x)}}
             /\ loc[p].todayListId # NoId /\ HasList(ls0, loc[p].todayListId) =>
                  ListById(ls0, loc[p].todayListId).title = todayName
        /\ lock = p =>
             \A i \in 1..Len(ls0) :
               ~IsStale(ls0[i]) =>
                 /\ HasList(lists, ls0[i].id)
                 /\ ListById(lists, ls0[i].id).title = ls0[i].title
                 /\ IF ls0[i].id = loc[p].inboxId
                    THEN IsSuffix(ls0[i].tasks, TasksOf(lists, ls0[i].id))
                    ELSE TasksOf(lists, ls0[i].id) = ls0[i].tasks

\* C21 witness: a run that started with the list "Work", an inbox, today's
\* list and stale lists has deleted a stale list and put a task into the inbox.
C21_Witness ==
  \E p \in Procs :
    /\ lock = p
    /\ pc[p] = "finally"
    /\ err[p] = <<>>
    /\ stats[p].listDeleted >= 2
    /\ stats[p].inboxAdds >= 1
    /\ HasList(hist[p].lists0, 9)
    /\ TasksOf(lists, 9) = <<tWork>>
    /\ TodayCount(hist[p].lists0, day) = 1

\* The tasks the inbox sweep has put into today's list.
Relocated == {t \in SeqToSet(TasksOf(lists, 3)) : t.id >= 50}

\* C22: with tracking on or off, a task the inbox sweep relocated to today's
\* list has the rollover fragments of the task it was in the inbox: the same
\* positions, the same count, after the same text.
C22_SweepKeepsCounter ==
  \A t \in Relocated :
    LET notes0 == OriginalOf(t).notes
    IN  /\ MatchPositions(t.notes) = MatchPositions(notes0)
        /\ RolloverCount(t.notes) = RolloverCount(notes0)
        /\ StartsWith(t.notes, notes0)

\* C22 witness: the sweep has ended with tracking on, and the task with
\* "Rollover Count: 2" is in today's list, with the count 2.
C22_Witness ==
  /\ pc[1] = "swept"
  /\ getTrackRolloverCount(props)
  /\ \E t \in Relocated :
       /\ t.orig = 25
       /\ RolloverCount(OriginalOf(t).notes) = 2
       /\ RolloverCount(t.notes) = 2

\* C23: a sweep of the inbox that starts after a sweep of the same day has
\* completed hands no task to TaskService.move, leaves every list as it found
\* it and leaves its inboxMoves at 0.
C23_SweepIdempotent ==
  \A p \in Procs :
    (p > 1 /\ pc[p] # "idle") =>
      /\ pc[p] # "inboxMove"
      /\ lists = hist[p].lists0
      /\ stats[p].inboxMoves = 0

\* C23 witness: the first sweep moved two tasks to today's list, and the
\* second sweep has gone through the inbox and returned.
C23_Witness ==
  /\ stats[1].inboxMoves = 2
  /\ Cardinality(Relocated) = 2
  /\ pc[2] = "swept"
  /\ Len(loc[2].tasksToMove) >= 1

\* The positions of an invocation in the loop over the stale lists.
SweepPcs == {"sweep", "patch", "move", "completed", "delete"}

\* Whether the invocation has called DigestMailer.sendWeeklyDigest or is at
\* the call.
DigestTriggered(p) == pc[p] = "digest" \/ <<"digest", TRUE>> \in did[p]

\* C24: in the loop over the stale lists the run has not created today's list;
\* it gets to the creation after the loop, to the inbox sweep only with
\* auto-move on and with today's list there, to logRun of the try block only
\* past the sweep position and with nothing logged yet; what it logged agrees
\* with the lists for as long as it holds the lock, so no list is changed
\* after the log; the digest is triggered only on the digest day, after the
\* log and with no exception thrown before; the release is the last call.
C24_StepOrder ==
  \A p \in Procs :
    /\ pc[p] \in SweepPcs =>
         /\ stats[p].listCreated = 0
         /\ LogCallsBy(p) = {}
    /\ pc[p] = "ensure" =>
         /\ hist[p].pausedAt > 0 \/ loc[p].si > Len(loc[p].staleLists)
         /\ LogCallsBy(p) = {}
    /\ pc[p] = "inbox" =>
         /\ getAutoMoveDueTasks(props)
         /\ TodayCount(lists, day) >= 1
         /\ LogCallsBy(p) = {}
    /\ pc[p] = "log" =>
         /\ ~getAutoMoveDueTasks(props)
         /\ TodayCount(lists, day) >= 1
         /\ LogCallsBy(p) = {}
    /\ lock = p =>
         \A i \in LogCallsBy(p) :
           /\ logCalls[i].stat.listDeleted =
                Cardinality(ListIds(hist[p].lists0) \ ListIds(lists))
           /\ logCalls[i].stat.listCreated =
                Cardinality(ListIds(lists) \ ListIds(hist[p].lists0))
           /\ hist[p].thrownOp \in {"", "logRun", "sendWeeklyDigest"} =>
                logCalls[i].stat.inboxAdds =
                  Cardinality(CreatedBy(p, getInboxListName(props)))
    /\ DigestTriggered(p) =>
         /\ GetDay(day) = getWeeklyDigestDay(props)
         /\ hist[p].thrownOp \in {"", "sendWeeklyDigest"}
         /\ LogCallsBy(p) # {}
    /\ (pc[p] = "done" /\ ~hist[p].aborted) =>
         /\ <<"release", TRUE>> \in did[p]
         /\ lock # p

\* C24 witness: a run on the digest day has deleted a stale list, created
\* today's list, logged once, triggered the digest and released the lock,
\* with no exception.
C24_Witness ==
  \E p \in Procs :
    /\ pc[p] = "done"
    /\ err[p] = <<>>
    /\ stats[p].listDeleted = 1
    /\ stats[p].listCreated = 1
    /\ Cardinality(LogCallsBy(p)) = 1
    /\ <<"digest", TRUE>> \in did[p]
    /\ <<"release", TRUE>> \in did[p]

\* The row of a run record with every field of the record, in the order of
\* the header Timestamp, InboxAdds, InboxMoves, ListDeleted, ListCreated,
\* CompletedTasks, Notes.
FullRowOf(st) ==
  <<st.timestamp, st.inboxAdds, st.inboxMoves, st.listDeleted, st.listCreated,
    st.completedTasks, st.notes>>

\* C25: every row appended to the log sheet after the header is the full row
\* of a record passed to logRun: it holds the inboxMoves count and the
\* completed tasks next to the five other fields.
C25_RowCarriesAllFields ==
  \A i \in 2..Len(sheet.rows) :
    \E j \in 1..Len(logCalls) : sheet.rows[i] = FullRowOf(logCalls[j].stat)

\* Whether an exception was thrown in the invocation while it migrated or
\* deleted a stale list, and the invocation still holds the lock.
SweepFailed(p) == lock = p /\ hist[p].thrownAt \in SweepPcs

\* C26: after an exception in the migration or deletion of a stale list the
\* run is in the catch or finally block of dailyRunner with that error; its
\* counters are those at the exception; no list was deleted or created
\* since, the stale lists after the failed one are as they were at the start
\* of the run, and the run is never at the inbox sweep.
C26_SweepAborts ==
  \A p \in Procs :
    SweepFailed(p) =>
      LET at == hist[p].statsAtThrow
          stale == loc[p].staleLists
      IN  /\ pc[p] \in {"catchLog", "catchMail", "finally"}
          /\ err[p] = ApiError
          /\ stats[p] = at \/ stats[p] = [at EXCEPT !.notes = FatalNote(ApiError)]
          /\ stats[p].listCreated = 0
          /\ ListIds(lists) \ ListIds(hist[p].lists0) = {}
          /\ ListIds(hist[p].lists0) \ ListIds(lists)
               = {stale[i].id : i \in 1..at.listDeleted}
          /\ \A i \in (at.listDeleted + 2)..Len(stale) :
               /\ HasList(lists, stale[i].id)
               /\ ListById(lists, stale[i].id) = ListById(hist[p].lists0, stale[i].id)
          /\ hist[p].thrownOp # "listAllTasks"

\* C26 witness: of three stale lists the first was deleted, the deletion of
\* the second threw, the third is as it was, there is no list for today that
\* the run created, and the run has left the catch block.
C26_Witness ==
  \E p \in Procs :
    /\ SweepFailed(p)
    /\ pc[p] = "finally"
    /\ hist[p].thrownAt = "delete"
    /\ hist[p].statsAtThrow.listDeleted = 1
    /\ Len(loc[p].staleLists) = 3
    /\ HasList(lists, loc[p].staleLists[2].id)
    /\ TasksOf(lists, loc[p].staleLists[3].id) # <<>>
    /\ \E i \in LogCallsBy(p) : logCalls[i].stat.notes = FatalNote(ApiError)

\* The lists of ls that rolloverProcess classifies as stale.
StaleIn(ls) ==
  {l \in SeqToSet(ls) :
     /\ StartsWith(l.title, getDailyListPrefix(props))
     /\ l.title # TodayListFullName(props, day)}

\* C27: every list that is stale when a run starts, the lists earlier runs
\* left included, is among the stale lists of that run; and once runs have
\* left no stale list, every task that was incomplete in a stale list before
\* the first run has a copy in the inbox.
C27_ResumedByLaterRuns ==
  /\ \A p \in Procs :
       Classified(p) =>
         {l.id : l \in StaleIn(hist[p].lists0)}
           = {l.id : l \in SeqToSet(loc[p].staleLists)}
  /\ (pc[1] = "done" /\ lock = NoOne /\ StaleIn(lists) = {}) =>
       \A l \in StaleIn(hist[1].lists0) :
         \A t \in SeqToSet(l.tasks) :
           IsIncomplete(t) => HasCopy(lists, 1, t.orig)

\* The tasks TaskService.move has created.
Moved == {t \in AllTasks(lists) : t.id >= 50}

\* C28: every task TaskService.move created is incomplete, without completion
\* time, recurrence or links, whatever the status of its source, and has the
\* due value of the task it comes from, or none if that task has none.
C28_MoveCopiesTitleNotesDue ==
  \A t \in Moved :
    /\ t.status = "needsAction"
    /\ t.completed = ""
    /\ t.recurrence = ""
    /\ t.links = <<>>
    /\ t.due = OriginalOf(t).due

\* C28 witness: a completed task with a due value was moved, and its
\* successor, incomplete with the same due value, was moved back.
C28_Witness ==
  /\ fn.n >= 2
  /\ pc[1] = "pick"
  /\ \E t \in SeqToSet(TasksOf(lists, 1)) :
       /\ t \in Moved
       /\ OriginalOf(t).status = "completed"
       /\ OriginalOf(t).due # <<>>
       /\ t.status = "needsAction"
       /\ t.due = OriginalOf(t).due

\* The records of the completed tasks of a list, in the order of the list.
CompletedRecords(tasks) ==
  LET done == SelectSeq(tasks, IsCompleted)
  IN  [i \in 1..Len(done) |->
         [taskName |-> done[i].title, completed_timestamp |-> done[i].completed]]

\* The records of the completed tasks of the first k stale lists of the run,
\* as the lists were when the run started.
RECURSIVE CompletedOfFirst(_, _)
CompletedOfFirst(p, k) ==
  IF k = 0 THEN <<>>
  ELSE CompletedOfFirst(p, k - 1)
         \o CompletedRecords(TasksOf(hist[p].lists0, loc[p].staleLists[k].id))

\* The stale lists of the run whose completed tasks have been recorded: the
\* deleted ones and the one whose deletion is the next call.
RecordedLists(p) ==
  stats[p].listDeleted
    + (IF pc[p] = "delete" \/ hist[p].thrownAt = "delete" THEN 1 ELSE 0)

\* C29: while a run holds the lock, its completedTasks is the sequence of the
\* records (title, completion time) of the completed tasks of the stale lists
\* it has recorded, list after list in the order of each list, every page
\* included, each task once and no incomplete task; and no task that the
\* rollover put into the inbox comes from a completed task.
C29_CompletedRecorded ==
  /\ \A p \in Procs :
       lock = p => stats[p].completedTasks = CompletedOfFirst(p, RecordedLists(p))
  /\ \A t \in SeqToSet(TasksOf(lists, 1)) :
       t.id >= 50 => IsIncomplete(OriginalOf(t))

\* C29 witness: a run has migrated a task of a stale list, read the completed
\* tasks of the list when it still had more tasks than one page, the second
\* completed task on the second page, and has both in its completedTasks.
C29_Witness ==
  \E p \in Procs :
    /\ lock = p
    /\ pc[p] = "delete"
    /\ stats[p].inboxAdds = 1
    /\ Len(TasksOf(lists, loc[p].src)) > MaxResults
    /\ stats[p].completedTasks =
         <<[taskName |-> tBob.title, completed_timestamp |-> tBob.completed],
           [taskName |-> tDone.title, completed_timestamp |-> tDone.completed]>>

\* The task with the id in the lists as they were when the invocation started.
SourceOf(p, id) == CHOOSE t0 \in AllTasks(hist[p].lists0) : t0.id = id

\* C30: with tracking on, every task a run has inserted into the inbox has
\* the notes TaskService.move builds from the source task with its counter
\* updated: the count is one more than the source had when the run started,
\* or 1, and the notes are never those the source had before the migration.
C30_DestinationCarriesCount ==
  \A p \in Procs :
    (lock = p /\ getTrackRolloverCount(props)) =>
      \A t \in CreatedBy(p, getInboxListName(props)) :
        LET src == SourceOf(p, t.orig)
            counted == [src EXCEPT !.notes = RolloverNotes(src.notes)]
        IN  /\ t.notes = MoveNotes(counted)
            /\ RolloverCount(t.notes) = RolloverCount(src.notes) + 1
            /\ t.notes # src.notes

\* C30 witness: the copy of a task with "Rollover Count: 3" and an email link
\* has just been inserted into the inbox with the count 4, before the email
\* block; the source task is still in the stale list.
C30_Witness ==
  \E p \in Procs :
    /\ lock = p
    /\ pc[p] = "move"
    /\ loc[p].mi = 2
    /\ loc[p].cur.id = 13
    /\ \E t \in CreatedBy(p, getInboxListName(props)) :
         t.notes = <<"Rolled over before.", Sep, RC, "4", EmailSep, "https://mail/1">>

\* The "Rollover Count: <digits>" fragments of the notes, with their places.
Fragments(notes) ==
  {<<i, SubSeq(notes, i, DigitRunEnd(notes, i))>> : i \in MatchPositions(notes)}

\* C31: with TRACK_ROLLOVER_COUNT "false" no invocation gets to the patch of
\* the notes, every task that was there when a run started and is still
\* there is as it was, and every task a run has put into the inbox has the
\* notes TaskService.move builds from the task as it was in the stale list,
\* with the same "Rollover Count:" fragments at the same places.
C31_NoCounterWritten ==
  ~getTrackRolloverCount(props) =>
    \A p \in Procs :
      /\ pc[p] # "patch"
      /\ lock = p =>
           LET before == AllTasks(hist[p].lists0)
           IN  /\ \A t \in AllTasks(lists) :
                    (\E t0 \in before : t0.id = t.id) => t \in before
               /\ \A t \in CreatedBy(p, getInboxListName(props)) :
                    LET src == SourceOf(p, t.orig)
                    IN  /\ t.notes = MoveNotes(src)
                        /\ Fragments(t.notes) = Fragments(src.notes)

\* C31 witness: a run without tracking has migrated "Pay rent", whose notes
\* hold "Rollover Count: 3" and which has an email link: the copy in the
\* inbox has the count 3 and the email block.
C31_Witness ==
  \E p \in Procs :
    /\ ~getTrackRolloverCount(props)
    /\ lock = p
    /\ pc[p] = "finally"
    /\ err[p] = <<>>
    /\ \E t \in CreatedBy(p, getInboxListName(props)) :
         /\ t.orig = tRent.id
         /\ t.notes = tRent.notes \o <<EmailSep, "https://mail/1">>
         /\ Fragments(t.notes) = {<<3, <<RC, "3">>>>}

\* The calendar date of a due timestamp: the year and the month, and the two
\* digits of the day.
DatePart(due) == <<due[1], due[2], due[3]>>

\* Whether the sweep of the invocation has left the task in the inbox as it
\* was, with no copy in today's list.
LeftInInbox(t) ==
  /\ \E i \in 1..Len(TasksOf(lists, 1)) : TasksOf(lists, 1)[i] = t
  /\ ~HasCopy(lists, 3, t.orig)

\* Whether the sweep has moved the task from the inbox to today's list.
MovedToToday(t) ==
  /\ ~HasTask(lists, 1, t.id)
  /\ HasCopy(lists, 3, t.orig)

ConfiguredDigestDay(pr) ==
  IF pr.WEEKLY_DIGEST_DAY = <<>> THEN 1
  ELSE CHOOSE d \in 0..6 : pr.WEEKLY_DIGEST_DAY = <<DigitToks[d + 1]>>

\* C33: once dailyRunner is past the test of the digest day, the digest has
\* been triggered exactly if the day of week of the run is the configured
\* one, for each value 0 (Sunday) to 6 and for the default, Monday.
C33_DigestDay ==
  \A p \in Procs :
    pc[p] \notin {"idle", "logged"} =>
      (DigestTriggered(p) <=> GetDay(day) = ConfiguredDigestDay(props))

\* The triggers of the sequence that are not triggers of dailyRunner.
OtherTriggers(ts) == SelectSeq(ts, LAMBDA t : t.handler # "dailyRunner")

\* The call of setup is the last one that started, and it is not over or no
\* later call has started.
LatestSetup(p) == pc[p] # "idle" /\ \A q \in Procs : q > p => pc[q] = "idle"

\* C34: when a call of setup has returned and no later call has started, the
\* project has exactly one trigger of dailyRunner, the time-driven one this
\* call created, and the triggers of other handlers are those it found; the
\* call has created a spreadsheet exactly if no sheet id was stored or
\* openById of the stored id threw, the stored id is then the new
\* spreadsheet's, and otherwise id and spreadsheets are as they were.  No
\* call, also one that throws, creates a spreadsheet while the stored id opens.
C34_SetupIdempotent ==
  \A p \in Procs :
    /\ (LatestSetup(p) /\ pc[p] = "returned") =>
         LET daily == SelectSeq(triggers, LAMBDA t : t.handler = "dailyRunner")
         IN  /\ daily = <<Trigger(100 + p, "dailyRunner")>>
             /\ OtherTriggers(triggers) = OtherTriggers(hist[p].triggers0)
             /\ loc[p].isNewSheet <=>
                  (hist[p].stored0 = Null \/ ~hist[p].opened)
             /\ getLogSheetId(props) \in spreadsheets
             /\ getLogSheetId(props) = loc[p].sheetId
    /\ LatestSetup(p) =>
         IF loc[p].isNewSheet
         THEN /\ hist[p].stored0 = Null \/ ~hist[p].opened
              /\ Cardinality(spreadsheets \ hist[p].sheets0) = 1
              /\ spreadsheets \ hist[p].sheets0 = {getLogSheetId(props)}
         ELSE /\ spreadsheets = hist[p].sheets0
              /\ getLogSheetId(props) = hist[p].stored0

\* C34 witness: the first call of setup found no stored sheet id and two
\* triggers of dailyRunner and created a spreadsheet; the second call found
\* the stored id accessible, created none, and has left one trigger.
C34_Witness ==
  /\ pc[1] = "returned"
  /\ pc[2] = "returned"
  /\ LatestSetup(2)
  /\ hist[1].stored0 = Null
  /\ hist[1].triggers0 = <<Trigger(1, "dailyRunner"), Trigger(2, "dailyRunner")>>
  /\ loc[1].isNewSheet
  /\ hist[2].opened
  /\ ~loc[2].isNewSheet
  /\ hist[2].triggers0 = <<Trigger(101, "dailyRunner")>>
  /\ triggers = <<Trigger(102, "dailyRunner")>>
  /\ Cardinality(spreadsheets \ hist[1].sheets0) = 1

\* The lists of the sequence that carry the configured inbox name.
InboxesIn(ls) == {ls[i].id : i \in {j \in 1..Len(ls) : ls[j].title = getInboxListName(props)}}

\* C35: while a run holds the lock, every list with the inbox name that
\* was there when it started is still there, the inbox the run found is not
\* among its stale lists, and the run is not migrating tasks out of it.
C35_InboxKept ==
  \A p \in Procs :
    lock = p =>
      /\ InboxesIn(hist[p].lists0) \subseteq ListIds(lists)
      /\ \A i \in 1..Len(loc[p].staleLists) :
           loc[p].staleLists[i].id \notin InboxesIn(hist[p].lists0)
      /\ loc[p].src # NoId => loc[p].src \notin InboxesIn(hist[p].lists0)

\* Days after the day of the run for which the classification is computed.
MaxLater == 2

\* Whether a run on day d classifies the list as stale.
StaleOn(d, id) ==
  \E l \in SeqToSet(StaleLists(TasklistsList(lists), getDailyListPrefix(props),
                               TodayListFullName(props, d))) : l.id = id

\* C36: while a run holds the lock, every list that carried today's title
\* when the run started is still there with its tasks as they were, is not
\* among the run's stale lists and is not the list being migrated; and every
\* list that carries today's title is stale for a run on a later day.
C36_TodayListKept ==
  \A p \in Procs :
    lock = p =>
      LET ls0 == hist[p].lists0
          todayName == TodayListFullName(props, day)
      IN  /\ \A i \in 1..Len(ls0) :
               ls0[i].title = todayName =>
                 /\ HasList(lists, ls0[i].id)
                 /\ ListById(lists, ls0[i].id) = ls0[i]
                 /\ \A k \in 1..Len(loc[p].staleLists) :
                      loc[p].staleLists[k].id # ls0[i].id
                 /\ loc[p].src # ls0[i].id
          /\ LET todays == {i \in 1..Len(lists) : lists[i].title = todayName}
             IN  todays # {} =>
                   \A d \in (day + 1)..(day + MaxLater) :
                     \A i \in todays : StaleOn(d, lists[i].id)

\* C36 witness: a run that found a list for today holding "Gym" has deleted
\* a stale list and migrated a task, and today's list is as it was.
C36_Witness ==
  \E p \in Procs :
    /\ lock = p
    /\ pc[p] = "finally"
    /\ err[p] = <<>>
    /\ stats[p].listDeleted = 1
    /\ stats[p].inboxAdds = 1
    /\ hist[p].lists0 = ScToday(day)
    /\ ListById(lists, 3) = DailyList(3, day, <<tGym>>)
    /\ StaleOn(day + 1, 3)

\* The run has reached the end of dailyRunner's try block without an
\* exception and without a pause, and still holds the lock.
CleanRunEnded(p) ==
  /\ lock = p
  /\ pc[p] = "finally"
  /\ err[p] = <<>>
  /\ hist[p].pausedAt = 0

\* The tasks the run has created in the inbox or in today's list that
\* descend from the task.
CopiesBy(p, t) ==
  {u \in CreatedBy(p, getInboxListName(props))
         \cup CreatedBy(p, TodayListFullName(props, day)) : u.orig = t.orig}

\* C37: when a run has ended without failure and without pause, no stale
\* list remains, every task that was incomplete in a stale list when the run
\* started has exactly one copy made by the run in the inbox or today's
\* list, and is in no other list.
C37_TaskConservation ==
  \A p \in Procs :
    CleanRunEnded(p) =>
      /\ StaleIn(lists) = {}
      /\ \A l \in StaleIn(hist[p].lists0) :
           \A t \in SeqToSet(l.tasks) :
             IsIncomplete(t) =>
               /\ Cardinality(CopiesBy(p, t)) = 1
               /\ \A u \in AllTasks(lists) : u.id # t.id

(* ------------------------------- C38 ---------------------------------- *)

\* The invocations that have called LoggingSheetUtil.logRun.
Loggers == {p \in Procs : LogCallsBy(p) # {}}

\* The rows of the run log under the header row.
RunRows == IF sheet.rows = <<>> THEN <<>> ELSE Tail(sheet.rows)

\* C38: every invocation passes its stats to LoggingSheetUtil.logRun at most
\* once, and the run log holds at most one row for each invocation that
\* logged, also when the digest or a mail sent from a catch block throws
\* after the log write of the try block.
C38_LoggedAtMostOnce ==
  /\ \A p \in Procs : Cardinality(LogCallsBy(p)) <= 1
  /\ Len(RunRows) <= Cardinality(Loggers)

(* ------------------------------- C39 ---------------------------------- *)

\* Whether the notes of a run start with the marker of the catch block.
IsFatal(notes) == notes # <<>> /\ notes[1] = "FATAL: "

\* The failure mails of invocation p.
FailureMailsBy(p) == {i \in MailsBy(p) : mails[i].subject = FailedSubject}

\* C39: under the default configuration, with auto-move enabled, a run that
\* found the inbox and in which no call of storage, log, mail or lock has
\* failed never takes the fatal path: its notes carry no FATAL marker and no
\* failure mail is sent for it.
C39_NoFatalPath ==
  \A p \in Procs :
    ( /\ props = DefaultProps
      /\ getAutoMoveDueTasks(props)
      /\ pc[p] # "idle"
      /\ ~hist[p].aborted
      /\ GetListByTitle(hist[p].lists0, getInboxListName(props)) # NoId
      /\ faults = 0 )
    => /\ ~IsFatal(stats[p].notes)
       /\ FailureMailsBy(p) = {}
       /\ pc[p] \notin {"catchLog", "catchMail"}

(* ------------------------------- C40 ---------------------------------- *)

\* Invocation p has run to its end without an exception and without pausing.
CleanRunDone(p) ==
  /\ pc[p] = "done"
  /\ ~hist[p].aborted
  /\ err[p] = <<>>
  /\ hist[p].thrownAt = ""
  /\ hist[p].pausedAt = 0

\* The four counters of a run are zero.
ZeroCounters(st) ==
  /\ st.inboxAdds = 0
  /\ st.listDeleted = 0
  /\ st.listCreated = 0
  /\ st.inboxMoves = 0

\* C40: a run on the same day after a run that ended without failure or
\* pause changes nothing in the task lists: the lists stay as it found them
\* (no list deleted or created, no task migrated or moved), its four counters
\* stay 0 and every RunStat it logs reports 0 for them.
C40_SecondRunNoOp ==
  \A p, q \in Procs :
    (p < q /\ CleanRunDone(p) /\ pc[q] # "idle" /\ ~hist[q].aborted) =>
      /\ lists = hist[q].lists0
      /\ ZeroCounters(stats[q])
      /\ \A i \in LogCallsBy(q) : ZeroCounters(logCalls[i].stat)

\* C40 witness: the first run deleted a stale list, migrated a task and
\* created today's list; the second run has ended as well, has logged its
\* RunStat, and the lists are as the first run left them.
C40_Witness ==
  \E p, q \in Procs :
    /\ p < q
    /\ CleanRunDone(p)
    /\ stats[p].listDeleted > 0
    /\ stats[p].inboxAdds > 0
    /\ stats[p].listCreated = 1
    /\ CleanRunDone(q)
    /\ LogCallsBy(q) # {}
    /\ lists = hist[q].lists0
    /\ lists # hist[p].lists0

====
